---- MODULE Spec2Model ----
(***************************************************************************)
(* A model of project-assistant: the NotionHelper task repository          *)
(* (modules/notion_utils.py), the tool dispatcher (modules/claude_tools.py)*)
(* and the chat loop of app.py.                                            *)
(*                                                                         *)
(* Python values are tagged records (field k names the Python type), so    *)
(* that None, strings, numbers, booleans and lists can be told apart.      *)
(* A Python str is Str(t), t a run-length coded string: a sequence of      *)
(* [c, n], token c repeated n times.  A token is one character (" ", "x")  *)
(* or a whole word the code never looks inside ("Done", "2025-01-01"), so  *)
(* joining, stripping, slicing, measuring and case-folding are computed.   *)
(***************************************************************************)
EXTENDS Integers, Sequences, FiniteSets, TLC

VARIABLES
    schema_cache,   \* NotionHelper._schema_cache: NONE or Dict(properties)
    remote_schema,  \* the properties the remote database serves
    remote_pages,   \* the remote database: page id -> page
    calls,          \* the remote calls issued by the operation in progress / last run
    op,             \* the operation last run and its inputs
    ret,            \* how that operation ended: a return value or a raised exception
    notes_pc,       \* append_notes: per caller, the position in the method
    notes_local,    \* append_notes: per caller, the locals (text, current)
    chat_pc,           \* app.py chat handler: the position in it
    session_messages,  \* st.session_state.messages
    session_tasks,     \* st.session_state.tasks
    messages,          \* the handler's local transcript, sent to the model
    response,          \* the model response being processed
    received,          \* history: the model responses received in this interaction
    dispatched,        \* history: the execute_tool calls made, with how each ended
    assistant_message, \* the final answer shown, once there is one
    log_buffer,        \* EventLogger.buffer
    session_state      \* st.session_state of the editor: widget values and dirty flags

repo_vars == <<schema_cache, remote_schema, remote_pages, calls, op, ret>>
notes_vars == <<notes_pc, notes_local>>
editor_vars == <<session_state>>
chat_vars == <<chat_pc, session_messages, session_tasks, messages, response, received,
               dispatched, assistant_message, log_buffer>>
vars == <<repo_vars, notes_vars, editor_vars, chat_vars>>

(***************************************************************************)
(* Python values                                                           *)
(***************************************************************************)
NONE == [k |-> "None"]
Str(t) == [k |-> "str", t |-> t]
Num(n) == [k |-> "num", n |-> n]
Bool(b) == [k |-> "bool", b |-> b]
List(xs) == [k |-> "list", xs |-> xs]
Dict(d) == [k |-> "dict", d |-> d]

\* Python truthiness: `if value`, `value or default`.
Truthy(v) ==
    CASE v.k = "None" -> FALSE
      [] v.k = "str" -> v.t # <<>>
      [] v.k = "num" -> v.n # 0
      [] v.k = "bool" -> v.b
      [] v.k = "list" -> v.xs # <<>>
      [] OTHER -> TRUE

(***************************************************************************)
(* Run-length coded strings: <<[c |-> "a", n |-> 3]>> is "aaa".  The coding *)
(* is canonical (no empty run, no two adjacent runs of the same token), so *)
(* equal strings are equal sequences.                                      *)
(***************************************************************************)
\* The one-token string w, and the string of n tokens c.
W(w) == <<[c |-> w, n |-> 1]>>
Rep(c, n) == IF n <= 0 THEN <<>> ELSE <<[c |-> c, n |-> n]>>

RECURSIVE TextLen(_)
TextLen(t) == IF t = <<>> THEN 0 ELSE Head(t).n + TextLen(Tail(t))

\* s + t
Concat(s, t) ==
    IF s = <<>> THEN t
    ELSE IF t = <<>> THEN s
    ELSE IF s[Len(s)].c = t[1].c
         THEN SubSeq(s, 1, Len(s) - 1)
              \o <<[c |-> t[1].c, n |-> s[Len(s)].n + t[1].n]>>
              \o Tail(t)
         ELSE s \o t

\* s[:n]
RECURSIVE Prefix(_, _)
Prefix(s, n) ==
    IF s = <<>> \/ n <= 0 THEN <<>>
    ELSE IF Head(s).n >= n THEN <<[c |-> Head(s).c, n |-> n]>>
    ELSE <<Head(s)>> \o Prefix(Tail(s), n - Head(s).n)

\* s.endswith(t)
EndsWith(s, t) ==
    \/ t = <<>>
    \/ /\ Len(s) >= Len(t)
       /\ LET off == Len(s) - Len(t)
          IN /\ s[off + 1].c = t[1].c
             /\ s[off + 1].n >= t[1].n
             /\ (Len(t) > 1 => s[off + 1].n = t[1].n)
             /\ \A i \in 2..Len(t) : s[off + i] = t[i]

\* Python's whitespace characters among the characters of the model.
IsSpace(c) == c \in {" ", "\n"}

RECURSIVE LStrip(_)
LStrip(t) == IF t # <<>> /\ IsSpace(Head(t).c) THEN LStrip(Tail(t)) ELSE t

RECURSIVE RStrip(_)
RStrip(t) ==
    IF t # <<>> /\ IsSpace(t[Len(t)].c) THEN RStrip(SubSeq(t, 1, Len(t) - 1)) ELSE t

\* str.strip()
Strip(t) == RStrip(LStrip(t))

\* str.lower() on the tokens of the model.
LowerTok(c) ==
    CASE c = "Done" -> "done"
      [] c = "DONE" -> "done"
      [] c = "Complete" -> "complete"
      [] c = "Completed" -> "completed"
      [] c = "To Do" -> "to do"
      [] c = "In progress" -> "in progress"
      [] c = "In Progress" -> "in progress"
      [] c = "Not started" -> "not started"
      [] c = "On hold" -> "on hold"
      [] c = "Blocked" -> "blocked"
      [] c = "Backlog" -> "backlog"
      [] c = "Active" -> "active"
      [] OTHER -> c

RECURSIVE Lower(_)
Lower(t) ==
    IF t = <<>> THEN <<>>
    ELSE Concat(<<[c |-> LowerTok(Head(t).c), n |-> Head(t).n]>>, Lower(Tail(t)))

(***************************************************************************)
(* Exceptions and results.  An operation ends in Return(v) or in           *)
(* Raise(exc, msg), Python's exception class and what the message says.    *)
(***************************************************************************)
Return(v) == [k |-> "return", v |-> v]
Raise(exc, msg) == [k |-> "raise", exc |-> exc, msg |-> msg]

(***************************************************************************)
(* The schema: the database's "properties" dict, in its order: a sequence  *)
(* of descriptors [name, type, options, groups].  options and groups are   *)
(* the lists under the descriptor's type key; options hold [id, name],     *)
(* groups hold [name, option_ids].                                         *)
(***************************************************************************)
Prop(name, type, options, groups) ==
    [k |-> "prop", name |-> name, type |-> type, options |-> options, groups |-> groups]

SchemaNames(schema) == {schema[i].name : i \in 1..Len(schema)}

\* schema.get(name): the descriptor, or None.
SchemaGet(schema, name) ==
    IF name \in SchemaNames(schema)
    THEN schema[CHOOSE i \in 1..Len(schema) : schema[i].name = name]
    ELSE NONE

(***************************************************************************)
(* Wire payloads.  A property payload is a dict holding one type-keyed     *)
(* field: Payload("select", v) is {"select": v}; as the remote serves it,  *)
(* the key is also its "type".  payload.get(key, dflt) is PGet, on         *)
(* `prop_payload or {}`.                                                   *)
(***************************************************************************)
Payload(key, val) == [k |-> "payload", key |-> key, val |-> val]
PGet(payload, key, dflt) ==
    IF payload.k = "payload" /\ payload.key = key THEN payload.val ELSE dflt

\* {"text": {"content": t}}, a rich-text run as the code writes it, and the run
\* as the remote serves it back, with its "plain_text".
Run(t) == [k |-> "run", content |-> t]
StoredRun(t) == [k |-> "run", content |-> t, plain_text |-> t]
\* {"name": n}, {"start": s}, and a person object {"id": i, "name": n or None}.
Named(n) == [k |-> "named", name |-> n]
DateObj(start) == [k |-> "date", start |-> start]
Person(id, name) == [k |-> "person", id |-> id, name |-> name]

\* part.get("plain_text") or ""
PlainTextOf(part) == IF "plain_text" \in DOMAIN part THEN part.plain_text ELSE <<>>

RECURSIVE JoinPlain(_)
JoinPlain(items) ==
    IF items = <<>> THEN <<>> ELSE Concat(PlainTextOf(Head(items)), JoinPlain(Tail(items)))

\* _rich_text_to_plain(items); items is a List or None.
\* `text or None`
StrOrNone(text) == IF text = <<>> THEN NONE ELSE Str(text)
rich_text_to_plain(items) ==
    IF ~Truthy(items) THEN NONE ELSE StrOrNone(Strip(JoinPlain(items.xs)))

\* person.get("name") or person.get("id")
PersonLabel(person) == IF Truthy(person.name) THEN person.name ELSE person.id

\* [opt.get("name") for opt in opts if opt.get("name")]
RECURSIVE OptionNames(_)
OptionNames(opts) ==
    IF opts = <<>> THEN <<>>
    ELSE (IF Truthy(Head(opts).name) THEN <<Head(opts).name>> ELSE <<>>)
         \o OptionNames(Tail(opts))

\* [person.get("name") or person.get("id") for person in people if ...]
RECURSIVE PersonLabels(_)
PersonLabels(people) ==
    IF people = <<>> THEN <<>>
    ELSE (IF Truthy(PersonLabel(Head(people))) THEN <<PersonLabel(Head(people))>> ELSE <<>>)
         \o PersonLabels(Tail(people))

\* `x or dflt`
Or(x, dflt) == IF Truthy(x) THEN x ELSE dflt
\* `selected.get("name") if selected else None`
NameIfSet(selected) == IF Truthy(selected) THEN selected.name ELSE NONE
\* `date_obj.get("start") if date_obj else None`
StartIfSet(date_obj) == IF Truthy(date_obj) THEN date_obj.start ELSE NONE
\* The multi_select comprehension: iterating a null field raises TypeError.
NamesIn(opts) ==
    IF opts.k = "list" THEN List(OptionNames(opts.xs)) ELSE Raise("TypeError", "not iterable")

\* NotionHelper._extract_property_value(prop_name, prop_schema, prop_payload),
\* on the descriptor's type: the value, or the exception the iteration over a
\* null multi_select raises.
extract_property_value(ptype, prop_payload) ==
    CASE ptype = "title" ->
            Or(rich_text_to_plain(PGet(prop_payload, "title", List(<<>>))),
               Str(W("Untitled")))
      [] ptype = "rich_text" ->
            rich_text_to_plain(PGet(prop_payload, "rich_text", List(<<>>)))
      [] ptype \in {"select", "status"} -> NameIfSet(PGet(prop_payload, ptype, NONE))
      [] ptype = "multi_select" -> NamesIn(PGet(prop_payload, "multi_select", List(<<>>)))
      [] ptype = "number" -> PGet(prop_payload, "number", NONE)
      [] ptype = "date" -> StartIfSet(PGet(prop_payload, "date", NONE))
      [] ptype \in {"checkbox", "url", "email", "phone_number"} ->
            PGet(prop_payload, ptype, NONE)
      [] ptype = "people" ->
            List(PersonLabels(Or(PGet(prop_payload, "people", NONE), List(<<>>)).xs))
      [] OTHER -> NONE

(***************************************************************************)
(* Encoding                                                                *)
(***************************************************************************)
\* `value in (None, "")`
IsNoneOrEmpty(v) == v.k = "None" \/ (v.k = "str" /\ v.t = <<>>)

\* repr() of the elements of a list, joined by ", ".
RECURSIVE ReprItems(_)
ReprItems(xs) ==
    IF xs = <<>> THEN <<>>
    ELSE LET x == Head(xs)
             one == CASE x.k = "str" -> Concat(W("'"), Concat(x.t, W("'")))
                      [] x.k = "num" -> W(ToString(x.n))
                      [] x.k = "bool" -> W(IF x.b THEN "True" ELSE "False")
                      [] OTHER -> W("None")
         IN IF Tail(xs) = <<>> THEN one
            ELSE Concat(one, Concat(W(","), Concat(W(" "), ReprItems(Tail(xs)))))

\* str(value)
PyStr(v) ==
    CASE v.k = "str" -> v.t
      [] v.k = "num" -> W(ToString(v.n))
      [] v.k = "bool" -> W(IF v.b THEN "True" ELSE "False")
      [] v.k = "list" -> Concat(W("["), Concat(ReprItems(v.xs), W("]")))
      [] OTHER -> W("None")

\* The strings float() parses, among the tokens of the model, and their values.
NumericTokens == {"0", "3", "42"}
TokenValue(c) == CASE c = "0" -> 0 [] c = "3" -> 3 [] OTHER -> 42

\* float(value) inside `try ... except (TypeError, ValueError)`: the number, or
\* None where float() raises.
FloatOrNone(v) ==
    CASE v.k = "num" -> v
      [] v.k = "bool" -> Num(IF v.b THEN 1 ELSE 0)
      [] v.k = "str" ->
            LET t == Strip(v.t)
            IN IF Len(t) = 1 /\ t[1].n = 1 /\ t[1].c \in NumericTokens
               THEN Num(TokenValue(t[1].c))
               ELSE NONE
      [] OTHER -> NONE

\* [{"name": str(v)} for v in value if v not in (None, "")]
RECURSIVE NamedItems(_)
NamedItems(xs) ==
    IF xs = <<>> THEN <<>>
    ELSE (IF IsNoneOrEmpty(Head(xs)) THEN <<>> ELSE <<Named(Str(PyStr(Head(xs))))>>)
         \o NamedItems(Tail(xs))

\* The payload _value_for_property builds for a property of type prop_type.
EncodeAs(prop_type, value) ==
    CASE prop_type = "title" ->
            Payload("title",
                    List(<<Run(IF value.k = "None" THEN <<>> ELSE PyStr(value))>>))
      [] prop_type = "rich_text" ->
            LET content == IF value.k = "None" THEN <<>> ELSE PyStr(value)
            IN Payload("rich_text",
                       IF content = <<>> THEN List(<<>>) ELSE List(<<Run(content)>>))
      [] prop_type = "number" ->
            Payload("number", IF IsNoneOrEmpty(value) THEN NONE ELSE FloatOrNone(value))
      [] prop_type = "date" ->
            Payload("date", IF ~Truthy(value) THEN NONE ELSE DateObj(Str(PyStr(value))))
      [] prop_type \in {"select", "status"} ->
            Payload(prop_type, IF ~Truthy(value) THEN NONE ELSE Named(Str(PyStr(value))))
      [] prop_type = "multi_select" ->
            Payload("multi_select",
                    IF ~Truthy(value) THEN List(<<>>)
                    ELSE List(NamedItems(IF value.k = "list" THEN value.xs ELSE <<value>>)))
      [] prop_type = "checkbox" -> Payload("checkbox", Bool(Truthy(value)))
      [] prop_type \in {"url", "email", "phone_number"} ->
            Payload(prop_type, IF Truthy(value) THEN value ELSE NONE)
      [] OTHER ->
            Payload("rich_text",
                    IF IsNoneOrEmpty(value) THEN List(<<>>)
                    ELSE List(<<Run(PyStr(value))>>))

\* NotionHelper._value_for_property(property_name, value) under the schema
\* self.schema() returns.
value_for_property(schema, property_name, value) ==
    LET prop_schema == SchemaGet(schema, property_name)
    IN IF ~Truthy(prop_schema)
       THEN Raise("ValueError", "Unknown property")
       ELSE Return(EncodeAs(prop_schema.type, value))

(***************************************************************************)
(* The remote database.  A page is [id, archived, properties]; properties  *)
(* maps a property name to the payload the remote serves for it.           *)
(***************************************************************************)
Page(id, properties) == [id |-> id, archived |-> FALSE, properties |-> properties]
NoProps == [n \in {} |-> NONE]

\* props.get(name)
PropsGet(props, name) == IF name \in DOMAIN props THEN props[name] ELSE NONE

RECURSIVE ServedRuns(_)
ServedRuns(runs) ==
    IF runs = <<>> THEN <<>> ELSE <<StoredRun(Head(runs).content)>> \o ServedRuns(Tail(runs))

\* What the remote serves for a payload it was sent: rich-text runs come back
\* with their plain_text, everything else as written.
Served(payload) ==
    IF payload.key \in {"title", "rich_text"}
    THEN Payload(payload.key, List(ServedRuns(payload.val.xs)))
    ELSE payload

\* client.pages.update(page_id=id, properties=patch) on the remote: the
\* properties named in patch are replaced, every other one is kept.
PagesUpdate(pages, id, patch) ==
    [pages EXCEPT ![id].properties =
        [n \in DOMAIN @ \cup DOMAIN patch |->
            IF n \in DOMAIN patch THEN Served(patch[n]) ELSE @[n]]]

(***************************************************************************)
(* Schema retrieval: schema() with its cache.                              *)
(***************************************************************************)
\* _fetch_schema_via_sdk, then _fetch_schema_via_http when the first gave
\* nothing; each swallows its failure and gives {}.
FetchSchema(served, sdk_ok, http_ok) ==
    LET props == IF sdk_ok THEN served ELSE <<>>
    IN IF props # <<>> THEN props ELSE IF http_ok THEN served ELSE <<>>

\* NotionHelper.schema(): the dict it returns; SchemaCall is also the value of
\* _schema_cache afterwards.
SchemaCall(cache, served, sdk_ok, http_ok) ==
    IF cache.k # "None" THEN cache.d ELSE FetchSchema(served, sdk_ok, http_ok)

(***************************************************************************)
(* Status taxonomy                                                         *)
(***************************************************************************)
COMPLETE_GROUP_NAMES == {W("complete"), W("completed"), W("done")}
ACTIVE_STATUS_FALLBACKS ==
    <<W("Not started"), W("In progress"), W("On hold"), W("Blocked"), W("To Do"),
      W("In Progress")>>

Range(seq) == {seq[i] : i \in 1..Len(seq)}

\* `if name and name not in active_names: active_names.append(name)`
AppendNew(active_names, name) ==
    IF name # <<>> /\ name \notin Range(active_names)
    THEN Append(active_names, name)
    ELSE active_names

\* option_by_id.get(oid): the dict comprehension keeps, for an id, the last
\* option that has an id and a name; <<>> stands for None.
OptionById(options, oid) ==
    LET hits == {i \in 1..Len(options) : options[i].id = oid /\ options[i].name # <<>>}
    IN IF hits = {} THEN <<>>
       ELSE options[CHOOSE i \in hits : \A j \in hits : j <= i].name

RECURSIVE GroupOptionNames(_, _, _)
GroupOptionNames(option_ids, options, active_names) ==
    IF option_ids = <<>> THEN active_names
    ELSE GroupOptionNames(Tail(option_ids), options,
                          AppendNew(active_names, OptionById(options, Head(option_ids))))

\* `group_name in complete_names`
IsCompleteGroup(group) == Lower(Strip(group.name)) \in COMPLETE_GROUP_NAMES

\* Step 1: the names of the options of the groups not named like Complete/Done.
RECURSIVE GroupStep(_, _, _)
GroupStep(groups, options, active_names) ==
    IF groups = <<>> THEN active_names
    ELSE GroupStep(Tail(groups), options,
                   IF IsCompleteGroup(Head(groups)) THEN active_names
                   ELSE GroupOptionNames(Head(groups).option_ids, options, active_names))

\* A resolver without step 2.
FallbackSkipped(fallbacks, options, active_names) == active_names

\* Step 2: the fallback names that are option names, in the fallback order.
RECURSIVE FallbackStep(_, _, _)
FallbackStep(fallbacks, options, active_names) ==
    IF fallbacks = <<>> THEN active_names
    ELSE FallbackStep(Tail(fallbacks), options,
            IF Head(fallbacks) \in {options[i].name : i \in 1..Len(options)} \ {<<>>}
            THEN AppendNew(active_names, Head(fallbacks))
            ELSE active_names)

\* Step 3: every option name that is not itself a completion name.
RECURSIVE OptionStep(_, _)
OptionStep(options, active_names) ==
    IF options = <<>> THEN active_names
    ELSE OptionStep(Tail(options),
            IF Head(options).name = <<>>
               \/ Lower(Strip(Head(options).name)) \in COMPLETE_GROUP_NAMES
            THEN active_names
            ELSE AppendNew(active_names, Head(options).name))

\* NotionHelper._active_status_names() under the schema self.schema() returns.
ThenFallbacks(options, active_names) ==
    IF active_names = <<>> /\ options # <<>>
    THEN FallbackStep(ACTIVE_STATUS_FALLBACKS, options, active_names)
    ELSE active_names
ThenOptions(options, active_names) ==
    IF active_names = <<>> THEN OptionStep(options, active_names) ELSE active_names
ActiveNamesOf(status_prop) ==
    IF ~Truthy(status_prop) THEN <<>>
    ELSE ThenOptions(status_prop.options,
            ThenFallbacks(status_prop.options,
                IF status_prop.groups # <<>>
                THEN GroupStep(status_prop.groups, status_prop.options, <<>>)
                ELSE <<>>))
active_status_names(schema) == ActiveNamesOf(SchemaGet(schema, "Status"))

\* NotionHelper._status_filter(value): the clause, or the ValueError.
StatusFilterOf(status_prop, value) ==
    IF ~Truthy(status_prop)
    THEN Raise("ValueError", "Database is missing a 'Status' property.")
    ELSE IF status_prop.type \in {"status", "select"}
    THEN Return([property |-> "Status", key |-> status_prop.type,
                 cond |-> "equals", value |-> value])
    ELSE IF status_prop.type = "multi_select"
    THEN Return([property |-> "Status", key |-> "multi_select",
                 cond |-> "contains", value |-> value])
    ELSE Raise("ValueError", "Unsupported Status property type")
status_filter(schema, value) == StatusFilterOf(SchemaGet(schema, "Status"), value)

RECURSIVE StatusClauses(_, _)
StatusClauses(schema, names) ==
    IF names = <<>> THEN <<>>
    ELSE <<status_filter(schema, Head(names)).v>> \o StatusClauses(schema, Tail(names))

\* NotionHelper._active_tasks_query(): Return of [query_kwargs, active_statuses],
\* or the ValueError of _status_filter.  A filter is [bool, clauses], {"or": [...]}.
DueDateSorts == <<[property |-> "Due Date", direction |-> "ascending"]>>
QueryFor(schema, active_statuses, first) ==
    IF active_statuses = <<>>
    THEN Return([query_kwargs |-> [sorts |-> DueDateSorts, filter |-> NONE],
                 active_statuses |-> active_statuses])
    ELSE IF first.k = "raise" THEN first
    ELSE Return([query_kwargs |->
                    [sorts |-> DueDateSorts,
                     filter |-> [k |-> "filter", bool |-> "or",
                                 clauses |-> StatusClauses(schema, active_statuses)]],
                 active_statuses |-> active_statuses])
QueryForActive(schema, active_statuses) ==
    QueryFor(schema, active_statuses,
             IF active_statuses = <<>> THEN NONE ELSE status_filter(schema, active_statuses[1]))
active_tasks_query(schema) == QueryForActive(schema, active_status_names(schema))

(***************************************************************************)
(* Queries on the remote database                                          *)
(***************************************************************************)
\* The page ids the remote hands out, in the order it serves pages.
PageIdSeq == <<"p1", "p2", "p3", "p4", "p5", "p6", "p7", "p8">>

\* t in s, on canonical run-length strings.
ContainsAt(s, t, i) ==
    /\ i + Len(t) - 1 <= Len(s)
    /\ \A j \in 1..Len(t) :
          /\ s[i + j - 1].c = t[j].c
          /\ IF j = 1 \/ j = Len(t) THEN s[i + j - 1].n >= t[j].n
             ELSE s[i + j - 1].n = t[j].n
ContainsText(s, t) == t = <<>> \/ \E i \in 1..Len(s) : ContainsAt(s, t, i)

\* One filter clause {"property": name, key: {cond: value}} on one page.  A
\* text clause (key rich_text) applies to a title or rich_text property, on
\* its plain text; the others to a property of the clause's own type.
ClauseOn(payload, clause) ==
    /\ payload.k = "payload"
    /\ IF clause.key = "rich_text"
       THEN /\ payload.key \in {"title", "rich_text"}
            /\ clause.cond = "contains"
            /\ ContainsText(JoinPlain(payload.val.xs), clause.value)
       ELSE /\ payload.key = clause.key
            /\ CASE clause.cond = "equals" ->
                      payload.val.k = "named" /\ payload.val.name = Str(clause.value)
                 [] clause.cond = "contains" ->
                      \E i \in 1..Len(payload.val.xs) :
                          payload.val.xs[i].name = Str(clause.value)
                 [] OTHER -> FALSE
ClauseMatches(page, clause) == ClauseOn(PropsGet(page.properties, clause.property), clause)

\* A filter is absent, one clause, or {"or": [clauses]}.
FilterMatches(page, filter) ==
    \/ filter.k = "None"
    \/ filter.k = "clause" /\ ClauseMatches(page, filter)
    \/ /\ filter.k = "filter"
       /\ IF filter.bool = "or"
          THEN \E i \in 1..Len(filter.clauses) : ClauseMatches(page, filter.clauses[i])
          ELSE \A i \in 1..Len(filter.clauses) : ClauseMatches(page, filter.clauses[i])

\* The "results" of databases.query: the pages that are not archived and match.
DatabasesQuery(pages, filter) ==
    LET Hit(id) == id \in DOMAIN pages /\ ~pages[id].archived
                   /\ FilterMatches(pages[id], filter)
        ids == SelectSeq(PageIdSeq, Hit)
    IN [i \in 1..Len(ids) |-> pages[ids[i]]]

\* _query_db going to the HTTP endpoint whatever the client offers.
QueryCallHttp(transport, query_kwargs) ==
    [api |-> "databases.query", via |-> "http", kwargs |-> query_kwargs]

\* NotionHelper._query_db(**kwargs): the primary SDK call when the client has
\* databases.query, else the direct HTTP POST; either may fail, and the failure
\* goes to the caller.  transport is [sdk, ok]: whether the SDK method exists and
\* whether the call made succeeds.
QueryCall(transport, query_kwargs) ==
    [api |-> "databases.query", via |-> IF transport.sdk THEN "sdk" ELSE "http",
     kwargs |-> query_kwargs]
query_db(pages, transport, query_kwargs) ==
    IF transport.ok
    THEN Return(DatabasesQuery(pages, query_kwargs.filter))
    ELSE Raise(IF transport.sdk THEN "APIResponseError" ELSE "HTTPStatusError",
               "query failed")
Transports == [sdk : BOOLEAN, ok : BOOLEAN]

(***************************************************************************)
(* Tasks                                                                   *)
(***************************************************************************)
NOTES_PROPERTY_NAMES == {"Notes or Description", "Notes"}

\* _slugify(name) on the property names of the model.
slugify(name) ==
    CASE name = "Status" -> "status"
      [] name = "Title" -> "title"
      [] name = "Task" -> "task"
      [] name = "Due Date" -> "due_date"
      [] name = "Notes or Description" -> "notes_or_description"
      [] name = "Notes" -> "notes"
      [] name = "Owner" -> "owner"
      [] name = "P" -> "p"
        [] OTHER -> name

\* d[key] = val, and d.get(key)
DictSet(d, key, val) == [x \in DOMAIN d \cup {key} |-> IF x = key THEN val ELSE d[x]]
DictGet(d, key) == IF key \in DOMAIN d THEN d[key] ELSE NONE

SetIf(cond, d, key, val) == IF cond THEN DictSet(d, key, val) ELSE d
SetProperty(task, prop_name, value) ==
    [task EXCEPT !.properties = DictSet(@, prop_name, value)]

\* _page_to_task, the body of the first loop, for one declared property.
TaskWithDeclared(task, prop_schema, value) ==
    SetIf(prop_schema.name \in NOTES_PROPERTY_NAMES /\ value.k # "None", 
          SetIf(prop_schema.type = "title",
                SetIf(slugify(prop_schema.name) # "",
                      SetProperty(task, prop_schema.name, value),
                      slugify(prop_schema.name), value),
                "title", Or(value, Str(W("Untitled")))),
          "notes", value)

\* _page_to_task, first loop: the properties the schema declares.  A decode
\* that raises ends the method with that exception.
RECURSIVE SchemaLoop(_, _, _)
SchemaStep(rest, props, task, prop_schema, value) ==
    IF value.k = "raise" THEN value
    ELSE SchemaLoop(rest, props, TaskWithDeclared(task, prop_schema, value))
SchemaLoop(schema, props, task) ==
    IF schema = <<>> THEN task
    ELSE SchemaStep(Tail(schema), props, task, Head(schema),
                    extract_property_value(Head(schema).type,
                                           PropsGet(props, Head(schema).name)))

\* _page_to_task, the body of the second loop, for one undeclared property.
TaskWithUndeclared(task, prop_name, ptype, value) ==
    SetIf(ptype = "title" /\ Truthy(value),
          SetIf(slugify(prop_name) # "" /\ slugify(prop_name) \notin DOMAIN task,
                SetProperty(task, prop_name, value),
                slugify(prop_name), value),
          "title", value)

\* _page_to_task, second loop: the payload's properties the schema lacks,
\* decoded by the payload's own "type"; raw_payload.get on a null payload
\* raises AttributeError.
RECURSIVE PayloadLoop(_, _, _)
PayloadStep(rest, props, task, prop_name, value) ==
    IF value.k = "raise" THEN value
    ELSE PayloadLoop(rest, props,
                     TaskWithUndeclared(task, prop_name, props[prop_name].key, value))
PayloadNext(names, props, task, prop_name) ==
    IF props[prop_name].k # "payload"
    THEN Raise("AttributeError", "'NoneType' object has no attribute 'get'")
    ELSE PayloadStep(names \ {prop_name}, props, task, prop_name,
                     extract_property_value(props[prop_name].key, props[prop_name]))
PayloadLoop(names, props, task) ==
    IF names = {} THEN task ELSE PayloadNext(names, props, task, CHOOSE n \in names : TRUE)

IsRaise(x) == "k" \in DOMAIN x /\ x.k = "raise"

\* task.setdefault("title", "Untitled") and the task_text alias.
TaskDefaults(task) ==
    IF IsRaise(task) THEN task
    ELSE SetIf("task" \in DOMAIN task /\ "task_text" \notin DOMAIN task,
               SetIf("title" \notin DOMAIN task, task, "title", Str(W("Untitled"))),
               "task_text", DictGet(task, "task"))
UndeclaredOf(props, task) ==
    IF IsRaise(task) THEN task
    ELSE PayloadLoop(DOMAIN props \ DOMAIN task.properties, props, task)

\* NotionHelper._page_to_task(page): the task dict, or the exception raised.
page_to_task(schema, page) ==
    TaskDefaults(
        UndeclaredOf(page.properties,
            SchemaLoop(schema, page.properties,
                       [id |-> page.id, properties |-> NoProps,
                        _raw_properties |-> page.properties])))

\* [self._page_to_task(p) for p in results]: Return of the tasks, or the first
\* exception.
TaskCons(task, rest) ==
    IF IsRaise(task) THEN task
    ELSE IF rest.k = "raise" THEN rest
    ELSE Return(<<task>> \o rest.v)
RECURSIVE PagesToTasks(_, _)
PagesToTasks(schema, results) ==
    IF results = <<>> THEN Return(<<>>)
    ELSE TaskCons(page_to_task(schema, Head(results)), PagesToTasks(schema, Tail(results)))

\* `(t.get("status") or "").strip().lower() not in COMPLETE_GROUP_NAMES`: "keep",
\* "drop", or "raise" for the AttributeError of .strip() on a value that is not
\* a string.
NotCompleteStatus(status) ==
    IF ~Truthy(status) THEN "keep"
    ELSE IF status.k # "str" THEN "raise"
    ELSE IF Lower(Strip(status.t)) \notin COMPLETE_GROUP_NAMES THEN "keep"
    ELSE "drop"
NotComplete(task) == NotCompleteStatus(DictGet(task, "status"))

FilterCons(task, keep, rest) ==
    IF keep = "raise" THEN Raise("AttributeError", "no attribute 'strip'")
    ELSE IF rest.k = "raise" THEN rest
    ELSE Return((IF keep = "keep" THEN <<task>> ELSE <<>>) \o rest.v)
RECURSIVE ClientFilter(_)
ClientFilter(tasks) ==
    IF tasks = <<>> THEN Return(<<>>)
    ELSE FilterCons(Head(tasks), NotComplete(Head(tasks)), ClientFilter(Tail(tasks)))

\* NotionHelper.list_active_tasks(): Return of the task list, or the exception.
ActiveOf(active_statuses, tasks) ==
    IF tasks.k = "raise" THEN tasks
    ELSE IF active_statuses = <<>> THEN ClientFilter(tasks.v)
    ELSE tasks
TasksOf(schema, active_statuses, resp) ==
    IF resp.k = "raise" THEN resp
    ELSE ActiveOf(active_statuses, PagesToTasks(schema, resp.v))
ListWith(schema, pages, transport, q) ==
    IF q.k = "raise" THEN q
    ELSE TasksOf(schema, q.v.active_statuses,
                 query_db(pages, transport, q.v.query_kwargs))
list_active_tasks(schema, pages, transport) ==
    ListWith(schema, pages, transport, active_tasks_query(schema))

(***************************************************************************)
(* Parts of the state a specification leaves alone.                        *)
(***************************************************************************)
NotesIdle == notes_pc = <<>> /\ notes_local = <<>>
EditorIdle == session_state = <<>>
ChatIdle ==
    /\ chat_pc = "off"
    /\ session_messages = <<>>
    /\ session_tasks = <<>>
    /\ messages = <<>>
    /\ response = NONE
    /\ received = <<>>
    /\ dispatched = <<>>
    /\ assistant_message = NONE
    /\ log_buffer = <<>>

(***************************************************************************)
(* SpecCodec: the property codec on one property "P" of one page.  Init    *)
(* draws the property's type and the value; the value is encoded           *)
(* (_value_for_property), written to the page, served back and decoded     *)
(* (_extract_property_value).                                              *)
(***************************************************************************)
TypeTags ==
    {"title", "rich_text", "select", "status", "multi_select", "number", "date",
     "checkbox", "url", "email", "phone_number", "people"}

\* The values decode can return for a property of type t.
NormalizedValues(t) ==
    CASE t = "title" -> {Str(W("Ship it")), Str(W("x") \o W(" ") \o W("y"))}
      [] t = "rich_text" -> {NONE, Str(W("x")), Str(W("x") \o W(" ") \o W("y"))}
      [] t \in {"select", "status"} -> {NONE, Str(W("To Do")), Str(W("Done"))}
      [] t = "multi_select" ->
            {List(<<>>), List(<<Str(W("red"))>>), List(<<Str(W("red")), Str(W("blue"))>>)}
      [] t = "number" -> {NONE, Num(0), Num(3)}
      [] t = "date" -> {NONE, Str(W("2025-11-03"))}
      [] t = "checkbox" -> {Bool(TRUE), Bool(FALSE)}
      [] t = "url" -> {NONE, Str(W("https://example.org"))}
      [] t = "email" -> {NONE, Str(W("ada@example.org"))}
      [] t = "phone_number" -> {NONE, Str(W("555-0100"))}
      [] t = "people" -> {List(<<>>), List(<<Str(W("Ada"))>>)}
      [] OTHER -> {NONE}

\* Values a caller may pass besides: the clear values, untrimmed text, text
\* that is or is not numeric.
RawValues ==
    {NONE, Str(<<>>), Str(W(" ") \o W("x")), Str(W("3")), Str(W("abc")), Num(3),
     Bool(TRUE), List(<<Str(<<>>), Str(W("red"))>>)}

CodecSchema(t) == <<Prop("P", t, <<>>, <<>>)>>

InitCodec ==
    /\ \E t \in TypeTags :
          /\ remote_schema = CodecSchema(t)
          /\ schema_cache = Dict(CodecSchema(t))
          /\ \E v \in NormalizedValues(t) \cup RawValues :
                op = [name |-> "codec", stage |-> "input", prop_type |-> t, value |-> v]
    /\ remote_pages = [id \in {"p1"} |-> Page(id, NoProps)]
    /\ calls = <<>>
    /\ ret = NONE
    /\ NotesIdle
    /\ EditorIdle
    /\ ChatIdle

CodecEncode ==
    /\ op.stage = "input"
    /\ ret' = value_for_property(schema_cache.d, "P", op.value)
    /\ op' = [op EXCEPT !.stage = "encoded"]
    /\ UNCHANGED <<schema_cache, remote_schema, remote_pages, calls, notes_vars, editor_vars, chat_vars>>

CodecStore ==
    /\ op.stage = "encoded"
    /\ ret.k = "return"
    /\ remote_pages' = PagesUpdate(remote_pages, "p1", [n \in {"P"} |-> ret.v])
    /\ op' = [op EXCEPT !.stage = "stored"]
    /\ UNCHANGED <<schema_cache, remote_schema, calls, ret, notes_vars, editor_vars, chat_vars>>

CodecDecode ==
    /\ op.stage = "stored"
    /\ LET value == extract_property_value(op.prop_type,
                                            PropsGet(remote_pages["p1"].properties, "P"))
       IN ret' = IF value.k = "raise" THEN value ELSE Return(value)
    /\ op' = [op EXCEPT !.stage = "decoded"]
    /\ UNCHANGED <<schema_cache, remote_schema, remote_pages, calls, notes_vars, editor_vars, chat_vars>>

NextCodec == CodecEncode \/ CodecStore \/ CodecDecode

SpecCodec == InitCodec /\ [][NextCodec]_vars

\* C3: for every supported type tag and every normalized value v of that type,
\* encoding v, storing the payload remotely and decoding it with the same type
\* tag yields v again.
C3_RoundTrip ==
    (op.name = "codec" /\ op.stage = "decoded"
        /\ op.value \in NormalizedValues(op.prop_type))
    => ret = Return(op.value)

(***************************************************************************)
(* SpecResolver: the status taxonomy and list_active_tasks.  Init draws    *)
(* the Status descriptor the remote database serves (its type, options and *)
(* groups); the database holds one page per status value.  The helper      *)
(* starts with no schema cached, so the first operation fetches it, and a  *)
(* fetch that fails on both paths leaves the helper with an empty schema   *)
(* (Status absent) over pages that do carry a Status.  Each behaviour is   *)
(* one call on the fresh helper: with the schema cached a second call      *)
(* computes the same.                                                      *)
(***************************************************************************)
MaxOptions == 2

OptionIdSeq == <<"o1", "o2", "o3", "o4">>
StatusOptionNames == {W("To Do"), W("Blocked"), W("Done"), W("Backlog")}
StatusGroupNames == {W("In progress"), W("Complete")}
StatusTypes == {"status", "select", "multi_select"}

\* Every list of n distinct elements of a set.
RECURSIVE Arrangements(_, _)
Arrangements(set, n) ==
    IF n = 0 THEN {<<>>}
    ELSE UNION {{<<x>> \o rest : rest \in Arrangements(set \ {x}, n - 1)} : x \in set}

\* Every list of at most MaxOptions options, their names distinct as the remote
\* keeps them; the i-th option has the i-th id.
OptionLists ==
    UNION {{[i \in 1..n |-> [id |-> OptionIdSeq[i], name |-> names[i]]] :
                names \in Arrangements(StatusOptionNames, n)} : n \in 0..MaxOptions}

\* Every list of option ids without repetition.
IdLists(ids) == UNION {Arrangements(ids, n) : n \in 0..Cardinality(ids)}

\* Every list of groups with distinct names, each holding a list of the ids;
\* the remote puts an option in at most one group.
RECURSIVE GroupLists(_, _)
GroupLists(names, ids) ==
    {<<>>} \cup
    UNION {UNION {{<<[name |-> g, option_ids |-> m]>> \o rest :
                      rest \in GroupLists(names \ {g}, ids \ Range(m))} :
                  m \in IdLists(ids)} : g \in names}

\* The groups a descriptor of this type may carry: only status has groups.
GroupListsFor(type, options) ==
    IF type = "status"
    THEN GroupLists(StatusGroupNames, {options[i].id : i \in 1..Len(options)})
    ELSE {<<>>}

\* The outcomes of the two schema fetch paths that matter: with a schema
\* cached no fetch is made.
FetchOutcomes(cache) ==
    IF cache.k = "None" THEN {<<TRUE, TRUE>>, <<FALSE, TRUE>>, <<FALSE, FALSE>>}
    ELSE {<<TRUE, TRUE>>}

RECURSIVE DistinctNames(_, _)
DistinctNames(options, seen) ==
    IF options = <<>> THEN <<>>
    ELSE (IF Head(options).name \in seen THEN <<>> ELSE <<Head(options).name>>)
         \o DistinctNames(Tail(options), seen \cup {Head(options).name})

\* The Status values of the pages of a database whose Status has these
\* options: unset, each option, and for multi_select all options at once.
StatusValues(type, options) ==
    LET names == DistinctNames(options, {})
        named == [i \in 1..Len(names) |-> Named(Str(names[i]))]
    IN IF type = "multi_select"
       THEN <<List(<<>>)>> \o [i \in 1..Len(names) |-> List(<<named[i]>>)]
            \o (IF Len(names) > 1 THEN <<List(named)>> ELSE <<>>)
       ELSE <<NONE>> \o named

PagesWithStatus(type, options) ==
    LET vals == StatusValues(type, options)
    IN [id \in {PageIdSeq[i] : i \in 1..Len(vals)} |->
          Page(id, [n \in {"Status"} |->
                      Payload(type, vals[CHOOSE i \in 1..Len(vals) : PageIdSeq[i] = id])])]

InitResolver ==
    /\ \E type \in StatusTypes, options \in OptionLists :
        \E groups \in GroupListsFor(type, options) :
          /\ remote_schema = <<Prop("Status", type, options, groups)>>
          /\ remote_pages = PagesWithStatus(type, options)
    /\ schema_cache = NONE
    /\ calls = <<>>
    /\ op = [name |-> "init"]
    /\ ret = NONE
    /\ NotesIdle
    /\ EditorIdle
    /\ ChatIdle

\* _active_status_names(), with the schema() call it starts with.
ActiveStatusNames(sdk_ok, http_ok) ==
    /\ op.name = "init"
    /\ schema_cache' = Dict(SchemaCall(schema_cache, remote_schema, sdk_ok, http_ok))
    /\ op' = [name |-> "_active_status_names"]
    /\ ret' = Return(active_status_names(schema_cache'.d))
    /\ calls' = <<>>
    /\ UNCHANGED <<remote_schema, remote_pages, notes_vars, editor_vars, chat_vars>>

\* list_active_tasks(), with the schema() call and the database query.
QueryCalls(transport, q) ==
    IF q.k = "raise" THEN <<>> ELSE <<QueryCall(transport, q.v.query_kwargs)>>
ListActiveTasks(sdk_ok, http_ok, transport) ==
    /\ op.name = "init"
    /\ schema_cache' = Dict(SchemaCall(schema_cache, remote_schema, sdk_ok, http_ok))
    /\ op' = [name |-> "list_active_tasks"]
    /\ ret' = list_active_tasks(schema_cache'.d, remote_pages, transport)
    /\ calls' = QueryCalls(transport, active_tasks_query(schema_cache'.d))
    /\ UNCHANGED <<remote_schema, remote_pages, notes_vars, editor_vars, chat_vars>>

NextResolver ==
    \/ \E fetch \in FetchOutcomes(schema_cache) : ActiveStatusNames(fetch[1], fetch[2])
    \/ \E fetch \in FetchOutcomes(schema_cache), transport \in Transports :
          ListActiveTasks(fetch[1], fetch[2], transport)

SpecResolver == InitResolver /\ [][NextResolver]_vars

\* task.get("status"), trimmed and case-folded, is a completion name.
StatusIsComplete(task) ==
    LET status == DictGet(task, "status")
    IN status.k = "str" /\ Lower(Strip(status.t)) \in COMPLETE_GROUP_NAMES

\* C1: for every schema and every set of remote pages, list_active_tasks()
\* never returns a task whose status, trimmed and case-folded, is "done",
\* "completed" or "complete".
C1_NoCompletedTask ==
    (op.name = "list_active_tasks" /\ ret.k = "return")
    => \A i \in 1..Len(ret.v) : ~StatusIsComplete(ret.v[i])

\* The option name belongs to a group of the descriptor named like
\* Complete/Done: an option of that name has its id among the group's ids.
InCompleteGroup(status_prop, name) ==
    \E g \in 1..Len(status_prop.groups), o \in 1..Len(status_prop.options) :
        /\ IsCompleteGroup(status_prop.groups[g])
        /\ status_prop.options[o].name = name
        /\ status_prop.options[o].id \in Range(status_prop.groups[g].option_ids)

\* C2: for every Status descriptor, the active-status list the resolver returns
\* never contains an option name that belongs to a group whose name case-folds
\* to "complete", "completed" or "done", whichever step produced the list.
C2_NoCompleteGroupMember ==
    (op.name = "_active_status_names" /\ schema_cache.d # <<>>)
    => \A i \in 1..Len(ret.v) : ~InCompleteGroup(SchemaGet(schema_cache.d, "Status"), ret.v[i])

(***************************************************************************)
(* The assistant's tools (claude_tools.py).  A tool result is the dict     *)
(* {"success": b, "message": m}.  An operation on the remote gives         *)
(* [ret, pages, calls]: how it ended, the remote pages after it, and the   *)
(* remote calls it issued.  remote is [query, retrieve, update]: whether   *)
(* the call of that kind, when made, succeeds.                             *)
(***************************************************************************)
ToolResult(success, message) == [success |-> success, message |-> message]
Outcome(r, pages, issued) == [ret |-> r, pages |-> pages, calls |-> issued]
PageId(id) == [k |-> "page_id", id |-> id]
Remotes == [query : BOOLEAN, retrieve : BOOLEAN, update : BOOLEAN]

\* strftime("%Y-%m-%d %H:%M") gives 16 characters; "[{timestamp}] {text}".
TimestampLen == 16
Stamped(text) ==
    Concat(W("["), Concat(Rep("t", TimestampLen), Concat(W("]"), Concat(W(" "), text))))

TitleFilter(task_title) ==
    [k |-> "clause", property |-> "Task", key |-> "rich_text", cond |-> "contains",
     value |-> task_title]
FindCall(task_title) ==
    [api |-> "databases.query", via |-> "sdk", kwargs |-> [filter |-> TitleFilter(task_title)]]
RetrieveCall(id) == [api |-> "pages.retrieve", page_id |-> id]
UpdateCall(id, properties) == [api |-> "pages.update", page_id |-> id, properties |-> properties]

\* find_task_by_title taking the first task of the database, without the
\* title filter.
find_first_task(pages, remote, task_title) ==
    IF remote.query THEN PageId(DatabasesQuery(pages, NONE)[1].id) ELSE NONE

\* find_task_by_title: the id of the first result, or None; a failing query is
\* caught and gives None.
FirstId(results) == IF results = <<>> THEN NONE ELSE PageId(results[1].id)
find_task_by_title(pages, remote, task_title) ==
    IF remote.query THEN FirstId(DatabasesQuery(pages, TitleFilter(task_title))) ELSE NONE

StatusPatch(new_status) == [n \in {"Status"} |-> Payload("status", Named(Str(new_status)))]
UpdateStatusOf(pages, remote, task_title, new_status, task_id) ==
    IF task_id.k = "None"
    THEN Outcome(Return(ToolResult(FALSE, Concat(W("Could not find task: "), task_title))),
                 pages, <<FindCall(task_title)>>)
    ELSE IF remote.update
    THEN Outcome(Return(ToolResult(TRUE, Concat(W("Updated "), task_title))),
                 PagesUpdate(pages, task_id.id, StatusPatch(new_status)),
                 <<FindCall(task_title), UpdateCall(task_id.id, StatusPatch(new_status))>>)
    ELSE Outcome(Return(ToolResult(FALSE, W("Error updating task: "))), pages,
                 <<FindCall(task_title), UpdateCall(task_id.id, StatusPatch(new_status))>>)
update_task_status(pages, remote, task_title, new_status) ==
    UpdateStatusOf(pages, remote, task_title, new_status,
                   find_task_by_title(pages, remote, task_title))

\* add_task_notes: the runs of "Notes" as served, plus one new run.
NotesPatch(existing_notes, notes) ==
    [n \in {"Notes"} |->
        Payload("rich_text",
                List(existing_notes.xs \o <<Run(Concat(Rep("\n", 2), Stamped(notes)))>>))]
AddNotesTo(pages, remote, task_title, notes, id, existing_notes) ==
    IF existing_notes.k # "list" \/ ~remote.update
    THEN Outcome(Return(ToolResult(FALSE, W("Error adding notes: "))), pages,
                 <<FindCall(task_title), RetrieveCall(id)>>
                 \o (IF existing_notes.k = "list"
                     THEN <<UpdateCall(id, NotesPatch(existing_notes, notes))>> ELSE <<>>))
    ELSE Outcome(Return(ToolResult(TRUE, Concat(W("Added notes to "), task_title))),
                 PagesUpdate(pages, id, NotesPatch(existing_notes, notes)),
                 <<FindCall(task_title), RetrieveCall(id),
                   UpdateCall(id, NotesPatch(existing_notes, notes))>>)
AddNotesOf(pages, remote, task_title, notes, task_id) ==
    IF task_id.k = "None"
    THEN Outcome(Return(ToolResult(FALSE, Concat(W("Could not find task: "), task_title))),
                 pages, <<FindCall(task_title)>>)
    ELSE IF ~remote.retrieve
    THEN Outcome(Return(ToolResult(FALSE, W("Error adding notes: "))), pages,
                 <<FindCall(task_title), RetrieveCall(task_id.id)>>)
    ELSE AddNotesTo(pages, remote, task_title, notes, task_id.id,
                    PGet(PropsGet(pages[task_id.id].properties, "Notes"), "rich_text",
                         List(<<>>)))
add_task_notes(pages, remote, task_title, notes) ==
    AddNotesOf(pages, remote, task_title, notes, find_task_by_title(pages, remote, task_title))

\* execute_tool(tool_name, tool_input): tool_input[key] raises KeyError when
\* the input lacks the key.
execute_tool(tool_name, tool_input, pages, remote) ==
    IF tool_name = "update_task_status"
    THEN IF "task_title" \notin DOMAIN tool_input
         THEN Outcome(Raise("KeyError", "task_title"), pages, <<>>)
         ELSE IF "new_status" \notin DOMAIN tool_input
         THEN Outcome(Raise("KeyError", "new_status"), pages, <<>>)
         ELSE update_task_status(pages, remote, tool_input.task_title, tool_input.new_status)
    ELSE IF tool_name = "add_task_notes"
    THEN IF "task_title" \notin DOMAIN tool_input
         THEN Outcome(Raise("KeyError", "task_title"), pages, <<>>)
         ELSE IF "notes" \notin DOMAIN tool_input
         THEN Outcome(Raise("KeyError", "notes"), pages, <<>>)
         ELSE add_task_notes(pages, remote, tool_input.task_title, tool_input.notes)
    ELSE Outcome(Return(ToolResult(FALSE, W("Unknown tool"))), pages, <<>>)

(***************************************************************************)
(* SpecTools: the tool dispatcher on a database of two tasks whose titles  *)
(* both contain "Ship".  Init draws what the first task's Notes holds;     *)
(* each step is one execute_tool call with any tool name, any input (keys  *)
(* present or missing) and any remote outcome.                             *)
(***************************************************************************)
MaxToolCalls == 2

ToolNames == {"update_task_status", "add_task_notes", "delete_task"}
ToolTitles == {W("Ship"), W("Nope")}
ToolInputKeys == {"task_title", "new_status", "notes"}
ToolInputValues(key) ==
    IF key = "task_title" THEN ToolTitles
    ELSE IF key = "new_status" THEN {W("Done")} ELSE {Rep("x", 3)}
ToolInputs ==
    UNION {{f \in [keys -> UNION {ToolInputValues(key) : key \in keys}] :
               \A key \in keys : f[key] \in ToolInputValues(key)} :
           keys \in SUBSET ToolInputKeys}

TitleRuns(t) == Payload("title", List(<<StoredRun(t)>>))
TITLE_PROPERTY == "Title"
ToolNotes ==
    {NONE, Payload("rich_text", List(<<>>)), Payload("rich_text", List(<<StoredRun(Rep("y", 5))>>))}
TaskPage(id, title, status, notes) ==
    Page(id, [n \in {"Task", "Status"} \cup (IF notes.k = "None" THEN {} ELSE {"Notes"}) |->
                CASE n = "Task" -> TitleRuns(title)
                  [] n = "Status" -> Payload("status", Named(Str(status)))
                  [] OTHER -> notes])
ToolPages(notes) ==
    [id \in {"p1", "p2"} |->
        IF id = "p1" THEN TaskPage("p1", Concat(W("Ship"), Concat(W(" "), W("it"))), W("To Do"), notes)
        ELSE TaskPage("p2", Concat(W("Ship"), Concat(W(" "), W("docs"))), W("Blocked"),
                      Payload("rich_text", List(<<>>)))]

\* The same pages in a database whose title property has the name the helper
\* writes titles under (TITLE_PROPERTY).
TitledPage(page) ==
    [page EXCEPT !.properties =
        [n \in (DOMAIN page.properties \ {"Task"}) \cup {TITLE_PROPERTY} |->
            IF n = TITLE_PROPERTY THEN page.properties["Task"] ELSE page.properties[n]]]
ToolPagesTitled(title_property, notes) ==
    IF title_property = "Task" THEN ToolPages(notes)
    ELSE [id \in DOMAIN ToolPages(notes) |-> TitledPage(ToolPages(notes)[id])]

InitTools ==
    /\ \E notes \in ToolNotes, title_property \in {"Task", TITLE_PROPERTY} :
          remote_pages = ToolPagesTitled(title_property, notes)
    /\ remote_schema = <<>>
    /\ schema_cache = NONE
    /\ calls = <<>>
    /\ op = [name |-> "init", n |-> 0]
    /\ ret = NONE
    /\ NotesIdle
    /\ EditorIdle
    /\ ChatIdle

ExecuteToolEnds(tool_name, tool_input, remote, out) ==
    /\ op' = [name |-> "execute_tool", n |-> op.n + 1, tool_name |-> tool_name,
              tool_input |-> tool_input, remote |-> remote, before |-> remote_pages]
    /\ ret' = out.ret
    /\ remote_pages' = out.pages
    /\ calls' = out.calls
    /\ UNCHANGED <<schema_cache, remote_schema, notes_vars, editor_vars, chat_vars>>
ExecuteTool(tool_name, tool_input, remote) ==
    /\ op.n < MaxToolCalls
    /\ ExecuteToolEnds(tool_name, tool_input, remote,
                       execute_tool(tool_name, tool_input, remote_pages, remote))

NextTools ==
    \E tool_name \in ToolNames, tool_input \in ToolInputs, remote \in Remotes :
        ExecuteTool(tool_name, tool_input, remote)

SpecTools == InitTools /\ [][NextTools]_vars

\* C4: for every tool name, every tool input (also one lacking task_title,
\* new_status or notes) and every remote outcome, execute_tool returns a result
\* with exactly the two fields success and message and never raises.
C4_UniformResult ==
    op.name = "execute_tool"
    => (ret.k = "return" /\ DOMAIN ret.v = {"success", "message"})

\* A task's title: the plain text of the page's property of type title.
TitleOf(page) ==
    JoinPlain(page.properties[CHOOSE n \in DOMAIN page.properties :
                                 page.properties[n].key = "title"].val.xs)
\* The tasks whose title contains task_title, in the database's order.
Matching(pages, task_title) ==
    SelectSeq(PageIdSeq, LAMBDA id : /\ id \in DOMAIN pages
                                     /\ ~pages[id].archived
                                     /\ ContainsText(TitleOf(pages[id]), task_title))
ToolCalled(tool_name, keys) ==
    /\ op.name = "execute_tool"
    /\ op.tool_name = tool_name
    /\ keys \subseteq DOMAIN op.tool_input
PageUpdates == SelectSeq(calls, LAMBDA c : c.api = "pages.update")

\* C15: when no task's title contains task_title, update_task_status and
\* add_task_notes return {success: false, message} without raising, issue no
\* page update, and leave the remote database as it was.
C15_NotFoundIsAFailureResult ==
    (/\ \/ ToolCalled("update_task_status", {"task_title", "new_status"})
        \/ ToolCalled("add_task_notes", {"task_title", "notes"})
     /\ Matching(op.before, op.tool_input.task_title) = <<>>)
    => /\ ret.k = "return"
       /\ DOMAIN ret.v = {"success", "message"}
       /\ ret.v.success = FALSE
       /\ PageUpdates = <<>>
       /\ remote_pages = op.before

\* The second call finds no task, after a first call that changed one.
C15_Witness ==
    /\ ToolCalled("add_task_notes", {"task_title", "notes"})
    /\ op.n = 2
    /\ op.remote.query /\ op.remote.retrieve /\ op.remote.update
    /\ Matching(op.before, op.tool_input.task_title) = <<>>
    /\ \E notes \in ToolNotes, title_property \in {"Task", TITLE_PROPERTY} :
          op.before # ToolPagesTitled(title_property, notes)

\* The task at id has new_status as its Status and nothing else has changed.
OnlyStatusSet(id, new_status) ==
    /\ DOMAIN remote_pages = DOMAIN op.before
    /\ remote_pages[id].properties["Status"] = Payload("status", Named(Str(new_status)))
    /\ \A other \in DOMAIN op.before :
          /\ remote_pages[other].archived = op.before[other].archived
          /\ DOMAIN remote_pages[other].properties = DOMAIN op.before[other].properties
          /\ \A n \in DOMAIN op.before[other].properties :
                (other # id \/ n # "Status")
                => remote_pages[other].properties[n] = op.before[other].properties[n]

\* C16: when at least one task's title contains task_title (and the remote
\* answers every call), update_task_status sets the Status of exactly the first
\* such task to new_status, modifies no other task and returns success true.
C16_UpdatesFirstMatch ==
    (/\ ToolCalled("update_task_status", {"task_title", "new_status"})
     /\ op.remote.query /\ op.remote.update
     /\ Matching(op.before, op.tool_input.task_title) # <<>>)
    => /\ ret.k = "return"
       /\ ret.v.success = TRUE
       /\ OnlyStatusSet(Matching(op.before, op.tool_input.task_title)[1],
                        op.tool_input.new_status)

(***************************************************************************)
(* The event log (logger.py) and the chat handler (app.py).                *)
(***************************************************************************)
\* EventLogger.log(event, user_id, meta): the record is buffered, then sent to
\* the sink; a failing sink adds an error entry and nothing is raised.
LogRecord(event, meta) == [event |-> event, meta |-> meta]
\* A log that buffers the record only once the sink has taken it.
log_unbuffered(buffer, event, meta, sink_ok) ==
    Append(buffer, IF sink_ok THEN LogRecord(event, meta) ELSE [error |-> "sink"])
log(buffer, event, meta, sink_ok) ==
    Append(buffer, LogRecord(event, meta))
    \o (IF sink_ok THEN <<>> ELSE <<[error |-> "sink"]>>)

\* save_message(role, content)
save_message(buffer, role, content, sink_ok) ==
    log(buffer, "chat_message", [role |-> role, content |-> content], sink_ok)

\* Content blocks, model responses and transcript turns.
TextBlock(t) == [k |-> "block", type |-> "text", text |-> t]
ToolUse(id, name, input) ==
    [k |-> "block", type |-> "tool_use", id |-> id, name |-> name, input |-> input]
ToolResultBlock(id, result) ==
    [k |-> "block", type |-> "tool_result", tool_use_id |-> id,
     content |-> [k |-> "pystr", of |-> result]]
Response(stop_reason, content) ==
    [k |-> "response", stop_reason |-> stop_reason, content |-> content]
Message(role, content) == [role |-> role, content |-> content]

\* A loop that dispatched the last block of the type instead of the first.
RECURSIVE LastOfType(_, _)
LastOfType(blocks, type) ==
    IF blocks = <<>> THEN NONE
    ELSE IF blocks[Len(blocks)].type = type THEN blocks[Len(blocks)]
    ELSE LastOfType(SubSeq(blocks, 1, Len(blocks) - 1), type)

\* next((block for block in blocks if block.get("type") == type), None)
RECURSIVE FirstOfType(_, _)
FirstOfType(blocks, type) ==
    IF blocks = <<>> THEN NONE
    ELSE IF Head(blocks).type = type THEN Head(blocks)
    ELSE FirstOfType(Tail(blocks), type)

\* st.session_state.messages[-10:]
HistoryWindow == 10
LastTurns(turns) ==
    SubSeq(turns, IF Len(turns) > HistoryWindow THEN Len(turns) - HistoryWindow + 1 ELSE 1,
           Len(turns))

\* The final answer: the first text block, or the stock sentence.
DefaultAnswer == W("I encountered an issue. Please try again.")
TextOr(block, dflt) == IF block.k = "None" THEN dflt ELSE block.text
FinalAnswer(content) == TextOr(FirstOfType(content, "text"), DefaultAnswer)

(***************************************************************************)
(* SpecChat: one chat interaction over the database of SpecTools.  The     *)
(* model answers each call with any response of ChatResponses or fails;    *)
(* every remote call of a tool and of the task refresh may fail.           *)
(***************************************************************************)
MaxModelCalls == 3

Greeting == Message("assistant", Str(W("Hi, I can update Notion for you.")))
ChatSchema ==
    << Prop("Task", "title", <<>>, <<>>),
       Prop("Status", "status",
            <<[id |-> "o1", name |-> W("To Do")], [id |-> "o2", name |-> W("Blocked")],
              [id |-> "o3", name |-> W("Done")]>>,
            <<[name |-> W("Active"), option_ids |-> <<"o1", "o2">>],
              [name |-> W("Complete"), option_ids |-> <<"o3">>]>>),
       Prop("Notes", "rich_text", <<>>, <<>>) >>

NoInput == [key \in {} |-> <<>>]
StatusInput(title, status) == [key \in {"task_title", "new_status"} |->
                                 IF key = "task_title" THEN title ELSE status]
NotesInput(title, notes) == [key \in {"task_title", "notes"} |->
                               IF key = "task_title" THEN title ELSE notes]

\* The responses the model may give to its n-th call; tool-use ids are unique.
ChatResponses(n) ==
    { Response("end_turn", <<TextBlock(W("All set."))>>),
      Response("end_turn", <<>>),
      Response("tool_use", <<TextBlock(W("On it.")),
                             ToolUse(<<n, 2>>, "update_task_status",
                                     StatusInput(W("Ship"), W("Done")))>>),
      Response("tool_use", <<ToolUse(<<n, 1>>, "add_task_notes",
                                     NotesInput(W("Ship"), Rep("x", 3))),
                             ToolUse(<<n, 2>>, "update_task_status",
                                     StatusInput(W("Nope"), W("Done")))>>),
      Response("tool_use", <<ToolUse(<<n, 1>>, "update_task_status", NoInput)>>),
      Response("tool_use", <<TextBlock(W("Hmm."))>>) }

\* fetch_active_tasks(): the list cached for 60 s, or list_active_tasks() on
\* the helper, whose failure is raised again.  The client of the application
\* has databases.query.
Refreshes ==
    {[hit |-> TRUE]} \cup
    {[hit |-> FALSE, sdk_ok |-> f[1], http_ok |-> f[2], transport |-> [sdk |-> TRUE, ok |-> ok]] :
        f \in {<<TRUE, TRUE>>, <<FALSE, TRUE>>, <<FALSE, FALSE>>}, ok \in BOOLEAN}

\* The session transcript the interaction starts from: the greeting alone, or
\* the greeting and three earlier interactions (one with a tool cycle whose tool
\* found no task, one whose model call failed, one answered at once, twice).
EarlierCall == ToolUse(<<0, 1>>, "update_task_status", StatusInput(W("Nope"), W("Done")))
EarlierSession ==
    << Greeting,
       Message("user", Str(W("Mark Nope as Done"))),
       Message("assistant", List(<<EarlierCall>>)),
       Message("user", List(<<ToolResultBlock(EarlierCall.id,
                                              ToolResult(FALSE, Concat(W("Could not find task: "),
                                                                       W("Nope"))))>>)),
       Message("assistant", Str(W("No such task."))),
       Message("user", Str(W("Hello?"))),
       Message("user", Str(W("Hello"))),
       Message("assistant", Str(W("All set."))),
       Message("user", Str(W("Thanks"))),
       Message("assistant", Str(W("All set."))),
       Message("user", Str(W("Bye"))),
       Message("assistant", Str(W("All set."))) >>

InitChat ==
    /\ remote_schema = ChatSchema
    /\ remote_pages = ToolPages(Payload("rich_text", List(<<>>)))
    /\ schema_cache = NONE
    /\ calls = <<>>
    /\ op = [name |-> "init"]
    /\ ret = NONE
    /\ NotesIdle
    /\ EditorIdle
    /\ chat_pc = "idle"
    /\ session_messages \in {<<Greeting>>, EarlierSession}
    /\ session_tasks = list_active_tasks(ChatSchema, remote_pages, [sdk |-> TRUE, ok |-> TRUE]).v
    /\ messages = <<>>
    /\ response = NONE
    /\ received = <<>>
    /\ dispatched = <<>>
    /\ assistant_message = NONE
    /\ log_buffer = <<>>

\* The user sends a prompt: it is recorded and logged, and the transcript of the
\* last turns is built for the model.
ChatSubmit(prompt, sink_ok) ==
    /\ chat_pc = "idle"
    /\ session_messages' = Append(session_messages, Message("user", Str(prompt)))
    /\ log_buffer' = save_message(log_buffer, "user", Str(prompt), sink_ok)
    /\ messages' = LastTurns(session_messages')
    /\ chat_pc' = "model"
    /\ UNCHANGED <<repo_vars, notes_vars, editor_vars, session_tasks, response, received, dispatched,
                   assistant_message>>

\* ANTHROPIC.messages.create(messages=messages) returns r.
ChatModelResponds(r) ==
    /\ chat_pc = "model"
    /\ Len(received) < MaxModelCalls
    /\ response' = r
    /\ received' = Append(received, [request |-> messages, response |-> r])
    /\ chat_pc' = "loop"
    /\ UNCHANGED <<repo_vars, notes_vars, editor_vars, session_messages, session_tasks, messages,
                   dispatched, assistant_message, log_buffer>>

\* ANTHROPIC.messages.create raises: the handler's except reports the error.
ChatModelFails ==
    /\ chat_pc = "model"
    /\ Len(received) < MaxModelCalls
    /\ received' = Append(received, [request |-> messages,
                                     response |-> Raise("APIError", "model call failed")])
    /\ chat_pc' = "failed"
    /\ UNCHANGED <<repo_vars, notes_vars, editor_vars, session_messages, session_tasks, messages,
                   response, dispatched, assistant_message, log_buffer>>

\* How one pass of the tool loop leaves the handler: the turns added to both
\* transcripts, where it goes next, and the task list and schema cache after
\* the refresh.
LoopEnds(pc, turns, tasks, cache, issued) ==
    /\ messages' = messages \o turns
    /\ session_messages' = session_messages \o turns
    /\ chat_pc' = pc
    /\ session_tasks' = tasks
    /\ schema_cache' = cache
    /\ calls' = issued

ToolResultTurn(tool_use, result) ==
    Message("user", List(<<ToolResultBlock(tool_use.id, result)>>))

\* st.session_state.tasks = fetch_active_tasks(), after a successful tool.
RefreshEnds(turn, tool_use, result, issued, cache, transport, tasks) ==
    IF tasks.k = "raise"
    THEN LoopEnds("failed", <<turn>>, session_tasks, cache,
                  issued \o QueryCalls(transport, active_tasks_query(cache.d)))
    ELSE LoopEnds("model", <<turn, ToolResultTurn(tool_use, result)>>, tasks.v, cache,
                  issued \o QueryCalls(transport, active_tasks_query(cache.d)))
RefreshWith(refresh, turn, tool_use, out, cache) ==
    RefreshEnds(turn, tool_use, out.ret.v, out.calls, cache, refresh.transport,
                list_active_tasks(cache.d, out.pages, refresh.transport))
Refreshed(refresh, turn, tool_use, out) ==
    IF refresh.hit
    THEN LoopEnds("model", <<turn, ToolResultTurn(tool_use, out.ret.v)>>, session_tasks,
                  schema_cache, out.calls)
    ELSE RefreshWith(refresh, turn, tool_use, out,
                     Dict(SchemaCall(schema_cache, remote_schema, refresh.sdk_ok,
                                     refresh.http_ok)))

\* execute_tool(tool_name, tool_input) and what follows it: an exception goes
\* to the handler's except; a result is shown and appended as a tool_result turn.
Dispatch(refresh, turn, tool_use, out) ==
    /\ dispatched' = Append(dispatched, [id |-> tool_use.id, name |-> tool_use.name,
                                         input |-> tool_use.input, ret |-> out.ret])
    /\ op' = [name |-> "execute_tool", tool_name |-> tool_use.name,
              tool_input |-> tool_use.input]
    /\ ret' = out.ret
    /\ remote_pages' = out.pages
    /\ IF out.ret.k = "raise"
       THEN LoopEnds("failed", <<turn>>, session_tasks, schema_cache, out.calls)
       ELSE IF out.ret.v.success
       THEN Refreshed(refresh, turn, tool_use, out)
       ELSE LoopEnds("model", <<turn, ToolResultTurn(tool_use, out.ret.v)>>, session_tasks,
                     schema_cache, out.calls)
    /\ UNCHANGED <<remote_schema, notes_vars, editor_vars, response, received, assistant_message,
                   log_buffer>>

\* One pass of `while response.stop_reason == "tool_use"`, up to the next
\* model call: the assistant turn is recorded, the first tool_use block is
\* dispatched; with no such block the loop is left.
LoopWith(remote, refresh, turn, tool_use) ==
    IF tool_use.k = "None"
    THEN /\ LoopEnds("answer", <<turn>>, session_tasks, schema_cache, <<>>)
         /\ UNCHANGED <<remote_schema, remote_pages, op, ret, notes_vars, editor_vars, response, received,
                        dispatched, assistant_message, log_buffer>>
    ELSE Dispatch(refresh, turn, tool_use,
                  execute_tool(tool_use.name, tool_use.input, remote_pages, remote))
ChatLoopStep(remote, refresh) ==
    /\ chat_pc = "loop"
    /\ response.stop_reason = "tool_use"
    /\ LoopWith(remote, refresh, Message("assistant", List(response.content)),
                FirstOfType(response.content, "tool_use"))

\* After the loop: the final answer is shown, recorded and logged.
ChatAnswer(sink_ok) ==
    /\ \/ chat_pc = "answer"
       \/ chat_pc = "loop" /\ response.stop_reason # "tool_use"
    /\ assistant_message' = Str(FinalAnswer(response.content))
    /\ session_messages' = Append(session_messages, Message("assistant", assistant_message'))
    /\ log_buffer' = save_message(log_buffer, "assistant", assistant_message', sink_ok)
    /\ chat_pc' = "done"
    /\ UNCHANGED <<repo_vars, notes_vars, editor_vars, session_tasks, messages, response, received,
                   dispatched>>

ChatPrompts == {W("Mark Ship it as Done")}

NextChat ==
    \/ \E prompt \in ChatPrompts, sink_ok \in BOOLEAN : ChatSubmit(prompt, sink_ok)
    \/ \E r \in ChatResponses(Len(received) + 1) : ChatModelResponds(r)
    \/ ChatModelFails
    \/ \E remote \in Remotes, refresh \in Refreshes : ChatLoopStep(remote, refresh)
    \/ \E sink_ok \in BOOLEAN : ChatAnswer(sink_ok)

SpecChat == InitChat /\ [][NextChat]_vars

\* The interaction is over, the model answered every call, and every
\* tool-invocation response carried a tool-invocation block.
ModelAnsweredAll == \A i \in 1..Len(received) : received[i].response.k = "response"
ToolBlocksPresent ==
    \A i \in 1..Len(received) :
        received[i].response.stop_reason = "tool_use"
        => FirstOfType(received[i].response.content, "tool_use").k # "None"
ChatOver == chat_pc \in {"done", "failed"}
DispatchedInOrder(k) ==
    /\ Len(dispatched) = k
    /\ \A i \in 1..k :
          dispatched[i].id = FirstOfType(received[i].response.content, "tool_use").id
AnsweredWith(content) ==
    FirstOfType(content, "text").k # "None"
    => assistant_message = Str(FirstOfType(content, "text").text)

\* C5: for a model response sequence of k tool-invocation responses followed by
\* one response with any other stop condition, the loop performs exactly k
\* dispatcher calls, in the order the responses arrive, and then returns the
\* first text block of the last response as the final answer.
C5_DispatchesThenAnswers ==
    (ChatOver /\ ModelAnsweredAll /\ ToolBlocksPresent)
    => /\ received # <<>>
       /\ received[Len(received)].response.stop_reason # "tool_use"
       /\ DispatchedInOrder(Len(received) - 1)
       /\ AnsweredWith(received[Len(received)].response.content)

\* The tool-invocation blocks of a response, in the order they stand in it.
ToolBlocks(content) == SelectSeq(content, LAMBDA block : block.type = "tool_use")
\* The i-th model call was answered with a tool-invocation response that
\* carries a tool-invocation block: a tool-processing cycle.
IsCycle(i) ==
    /\ received[i].response.k = "response"
    /\ received[i].response.stop_reason = "tool_use"
    /\ ToolBlocks(received[i].response.content) # <<>>
CycleCall(i) == ToolBlocks(received[i].response.content)[1]
CycleDispatch(i) ==
    /\ dispatched[i].id = CycleCall(i).id
    /\ dispatched[i].name = CycleCall(i).name
    /\ dispatched[i].input = CycleCall(i).input
CycleTurns(i) ==
    << Message("assistant", List(received[i].response.content)),
       Message("user", List(<<ToolResultBlock(CycleCall(i).id, dispatched[i].ret.v)>>)) >>

\* C24: each tool-processing cycle dispatches exactly one call, the first
\* tool-invocation block of the response (no later block of it is ever
\* dispatched), and before the model is invoked again exactly one tool-result
\* turn with that call's id and the dispatcher's result is appended.
C24_OneDispatchPerCycle ==
    /\ Len(dispatched) <= Len(received)
    /\ \A i \in 1..Len(dispatched) : IsCycle(i) /\ CycleDispatch(i)
    /\ \A i \in 1..(Len(received) - 1) :
          /\ IsCycle(i)
          /\ i <= Len(dispatched)
          /\ dispatched[i].ret.k = "return"
          /\ received[i + 1].request = received[i].request \o CycleTurns(i)
C24_Witness ==
    /\ Len(received) >= 2
    /\ Len(ToolBlocks(received[1].response.content)) = 2
    /\ Len(dispatched) >= 2

\* A turn that holds a tool-invocation block; a tool-result turn; the two
\* paired: the result carries the id of the turn's first invocation.
HasToolUse(turn) ==
    /\ turn.role = "assistant"
    /\ turn.content.k = "list"
    /\ ToolBlocks(turn.content.xs) # <<>>
IsToolResult(turn) ==
    /\ turn.role = "user"
    /\ turn.content.k = "list"
    /\ turn.content.xs # <<>>
    /\ turn.content.xs[1].type = "tool_result"
Paired(invocation, result) ==
    /\ HasToolUse(invocation)
    /\ IsToolResult(result)
    /\ result.content.xs[1].tool_use_id = ToolBlocks(invocation.content.xs)[1].id
InvocationsAnswered(turns) ==
    \A i \in 1..Len(turns) :
        HasToolUse(turns[i]) => (i < Len(turns) /\ Paired(turns[i], turns[i + 1]))
ResultsPreceded(turns) ==
    \A i \in 1..Len(turns) :
        IsToolResult(turns[i]) => (i > 1 /\ Paired(turns[i - 1], turns[i]))

\* C27: when an interaction is over, however it ended, every assistant turn of
\* the session transcript that holds a tool-invocation block is immediately
\* followed by a tool-result turn with that invocation's id; and no transcript
\* sent to the model holds a tool-result turn without the tool-invocation turn
\* before it.
C27_TranscriptWellFormed ==
    /\ ChatOver => InvocationsAnswered(session_messages)
    /\ \A j \in 1..Len(received) : ResultsPreceded(received[j].request)

(***************************************************************************)
(* SpecLoop: the conversation loop run for as long as the model asks for   *)
(* tools.  The tools asked for set a status, so the database stays within  *)
(* finitely many states; the transcripts and the two histories keep their  *)
(* latest MaxKept entries, which the loop's control flow never reads.      *)
(* FairLoop adds what the handler's straight-line code gives: a model call *)
(* returns or raises, and a response in hand is processed.                 *)
(***************************************************************************)
MaxKept == 1
Latest(seq) ==
    IF Len(seq) > MaxKept THEN SubSeq(seq, Len(seq) - MaxKept + 1, Len(seq)) ELSE seq

LoopResponses ==
    { Response("end_turn", <<TextBlock(W("All set."))>>),
      Response("tool_use", <<TextBlock(W("On it.")),
                             ToolUse(<<0, 2>>, "update_task_status",
                                     StatusInput(W("Ship"), W("Done")))>>),
      Response("tool_use", <<ToolUse(<<0, 1>>, "update_task_status",
                                     StatusInput(W("Nope"), W("Done"))),
                             ToolUse(<<0, 2>>, "update_task_status",
                                     StatusInput(W("Ship"), W("To Do")))>>),
      Response("tool_use", <<ToolUse(<<0, 1>>, "update_task_status", NoInput)>>),
      Response("tool_use", <<TextBlock(W("Hmm."))>>) }

\* A loop that gives up after MaxKept dispatches.
LoopGuardCapped == response.stop_reason = "tool_use" /\ Len(dispatched) < MaxKept
\* while getattr(response, "stop_reason", None) == "tool_use"
LoopGuard == response.stop_reason = "tool_use"

LoopModelResponds(r) ==
    /\ chat_pc = "model"
    /\ response' = r
    /\ received' = Latest(Append(received, [request |-> messages, response |-> r]))
    /\ chat_pc' = "loop"
    /\ UNCHANGED <<repo_vars, notes_vars, editor_vars, session_messages, session_tasks, messages,
                   dispatched, assistant_message, log_buffer>>
LoopModelFails ==
    /\ chat_pc = "model"
    /\ received' = Latest(Append(received, [request |-> messages,
                                            response |-> Raise("APIError", "model call failed")]))
    /\ chat_pc' = "failed"
    /\ UNCHANGED <<repo_vars, notes_vars, editor_vars, session_messages, session_tasks, messages,
                   response, dispatched, assistant_message, log_buffer>>

\* st.session_state.tasks = fetch_active_tasks() after a successful tool, as a
\* value: whether it raised, the task list, the schema cache, the calls issued.
NoRefresh(out) ==
    [raised |-> FALSE, tasks |-> session_tasks, cache |-> schema_cache, issued |-> out.calls]
LoopRefreshed(out, cache, transport, tasks) ==
    [raised |-> tasks.k = "raise",
     tasks |-> IF tasks.k = "raise" THEN session_tasks ELSE tasks.v,
     cache |-> cache,
     issued |-> out.calls \o QueryCalls(transport, active_tasks_query(cache.d))]
LoopRefreshWith(refresh, out, cache) ==
    LoopRefreshed(out, cache, refresh.transport,
                  list_active_tasks(cache.d, out.pages, refresh.transport))
LoopRefresh(refresh, out) ==
    IF out.ret.k = "raise" THEN NoRefresh(out)
    ELSE IF ~out.ret.v.success \/ refresh.hit THEN NoRefresh(out)
    ELSE LoopRefreshWith(refresh, out,
                         Dict(SchemaCall(schema_cache, remote_schema, refresh.sdk_ok,
                                         refresh.http_ok)))

\* One pass of the loop with a tool_use block in hand: execute_tool, the
\* refresh, the tool_result turn, and back to the model call; an exception of
\* either call leaves through the handler's except.
LoopLeaves(pc, turns, fresh) ==
    /\ messages' = Latest(messages \o turns)
    /\ session_messages' = Latest(session_messages \o turns)
    /\ chat_pc' = pc
    /\ session_tasks' = fresh.tasks
    /\ schema_cache' = fresh.cache
    /\ calls' = fresh.issued
LoopDispatch(turn, tool_use, out, fresh) ==
    /\ dispatched' = Latest(Append(dispatched, [id |-> tool_use.id, name |-> tool_use.name,
                                                input |-> tool_use.input, ret |-> out.ret]))
    /\ op' = [name |-> "execute_tool", tool_name |-> tool_use.name,
              tool_input |-> tool_use.input]
    /\ ret' = out.ret
    /\ remote_pages' = out.pages
    /\ IF out.ret.k = "raise" \/ fresh.raised
       THEN LoopLeaves("failed", <<turn>>, fresh)
       ELSE LoopLeaves("model", <<turn, ToolResultTurn(tool_use, out.ret.v)>>, fresh)
    /\ UNCHANGED <<remote_schema, notes_vars, editor_vars, response, received, assistant_message,
                   log_buffer>>
LoopRuns(refresh, turn, tool_use, out) ==
    LoopDispatch(turn, tool_use, out, LoopRefresh(refresh, out))
LoopPass(remote, refresh, turn, tool_use) ==
    IF tool_use.k = "None"
    THEN /\ LoopLeaves("answer", <<turn>>, NoRefresh([calls |-> <<>>]))
         /\ UNCHANGED <<remote_schema, remote_pages, op, ret, notes_vars, editor_vars, response, received,
                        dispatched, assistant_message, log_buffer>>
    ELSE LoopRuns(refresh, turn, tool_use,
                  execute_tool(tool_use.name, tool_use.input, remote_pages, remote))
LoopStep(remote, refresh) ==
    /\ chat_pc = "loop"
    /\ LoopGuard
    /\ LoopPass(remote, refresh, Message("assistant", List(response.content)),
                FirstOfType(response.content, "tool_use"))

\* After the loop: the final answer is shown, recorded and logged.
LoopAnswer(sink_ok) ==
    /\ \/ chat_pc = "answer"
       \/ chat_pc = "loop" /\ ~LoopGuard
    /\ assistant_message' = Str(FinalAnswer(response.content))
    /\ session_messages' = Latest(Append(session_messages,
                                         Message("assistant", assistant_message')))
    /\ log_buffer' = save_message(log_buffer, "assistant", assistant_message', sink_ok)
    /\ chat_pc' = "done"
    /\ UNCHANGED <<repo_vars, notes_vars, editor_vars, session_tasks, messages, response, received,
                   dispatched>>

LoopModel == (\E r \in LoopResponses : LoopModelResponds(r)) \/ LoopModelFails
LoopProcess ==
    \/ \E remote \in Remotes, refresh \in Refreshes : LoopStep(remote, refresh)
    \/ \E sink_ok \in BOOLEAN : LoopAnswer(sink_ok)
NextLoop ==
    \/ \E prompt \in ChatPrompts, sink_ok \in BOOLEAN : ChatSubmit(prompt, sink_ok)
    \/ \E r \in LoopResponses : LoopModelResponds(r)
    \/ LoopModelFails
    \/ \E remote \in Remotes, refresh \in Refreshes : LoopStep(remote, refresh)
    \/ \E sink_ok \in BOOLEAN : LoopAnswer(sink_ok)

SpecLoop == InitChat /\ [][NextLoop]_vars
FairLoop == SpecLoop /\ WF_vars(LoopModel) /\ WF_vars(LoopProcess)

\* What ends the loop: a call raised, or the response in hand has another stop
\* condition than tool invocation, or it has no tool-invocation block.
CallRaised == chat_pc = "failed"
EndingResponse ==
    /\ response # NONE
    /\ response.stop_reason # "tool_use" \/ ToolBlocks(response.content) = <<>>
LoopCause == CallRaised \/ EndingResponse

\* C25: the loop has no iteration cap.  It terminates only when a response
\* ended the cycle or a call raised, and then it does terminate; as long as
\* neither happens every model call is followed by a response in hand and every
\* response in hand by the next model call, so that a model asking for a tool
\* on every response keeps the loop dispatching forever.
C25_LoopUncapped ==
    /\ [](ChatOver => LoopCause)
    /\ LoopCause ~> ChatOver
    /\ (chat_pc = "model") ~> (chat_pc = "loop" \/ CallRaised)
    /\ (chat_pc = "loop" /\ ~LoopCause) ~> (chat_pc = "model" \/ CallRaised)
\* A cycle was completed (its tool-result turn ends the transcript) and the
\* next response asks for a tool again.
C25_Witness ==
    /\ chat_pc = "loop"
    /\ ~LoopCause
    /\ Len(dispatched) = MaxKept
    /\ dispatched[MaxKept].ret.k = "return"
    /\ messages[Len(messages)] = ToolResultTurn(dispatched[MaxKept], dispatched[MaxKept].ret.v)

(***************************************************************************)
(* NotionHelper.append_notes(page_id, text): the page is retrieved, the    *)
(* new text is built from the first run of "Notes or Description", and the *)
(* property is written back as one run cut to 2000 characters.             *)
(***************************************************************************)
NOTES_MAX == 2000
NOTES_PROPERTY == "Notes or Description"

\* current = notes["rich_text"][0].get("plain_text", "") if notes.get("rich_text")
FirstPlain(runs) == IF Truthy(runs) THEN PlainTextOf(runs.xs[1]) ELSE <<>>
CurrentNotes(props) == FirstPlain(PGet(PropsGet(props, NOTES_PROPERTY), "rich_text", NONE))

\* The page's entire notes text: the plain text of all its runs.
WholeNotes(props) ==
    JoinPlain(PGet(PropsGet(props, NOTES_PROPERTY), "rich_text", List(<<>>)).xs)

\* f"{current}\n\n[{timestamp}] {text}" if current else f"[{timestamp}] {text}"
NewText(current, text) ==
    IF current # <<>> THEN Concat(current, Concat(Rep("\n", 2), Stamped(text)))
    ELSE Stamped(text)

AppendPatch(new_text) ==
    [n \in {NOTES_PROPERTY} |-> Payload("rich_text", List(<<Run(Prefix(new_text, NOTES_MAX))>>))]

\* What NotionHelper.append_notes(id, text) leaves of pages when both its
\* remote calls succeed.
AppendedTo(pages, id, text) ==
    PagesUpdate(pages, id, AppendPatch(NewText(CurrentNotes(pages[id].properties), text)))

\* C26: add_task_notes(title, notes), when it succeeds, leaves the remote
\* database as NotionHelper.append_notes(id, notes) on the matched page does:
\* the same notes property written, the same timestamped line appended, the
\* same 2000-character limit.
C26_AddNotesIsAppend ==
    (/\ ToolCalled("add_task_notes", {"task_title", "notes"})
     /\ ret.k = "return"
     /\ ret.v.success)
    => remote_pages =
          AppendedTo(op.before,
                     find_task_by_title(op.before, op.remote, op.tool_input.task_title).id,
                     op.tool_input.notes)

(***************************************************************************)
(* SpecNotes: two callers (two sessions of the application) append notes   *)
(* to the same page p1.  Init draws what the page's notes hold; a call is  *)
(* two steps, the retrieve and the update, and the steps of the callers    *)
(* interleave freely; either remote call may fail.  Each caller keeps, for *)
(* its last call, the text, the notes it read (current, and whole: all the *)
(* runs the page held), the content it wrote, and                          *)
(* how many writes the page had seen when it read and once it had written. *)
(***************************************************************************)
MaxAppends == 1

Callers == {"c1", "c2"}
NoteTexts == {Rep("a", 3), Rep("b", 3)}
ExistingNotes ==
    { NONE,
      Payload("rich_text", List(<<>>)),
      Payload("rich_text", List(<<StoredRun(Rep("y", 5))>>)),
      Payload("rich_text", List(<<StoredRun(Rep("y", 1990))>>)),
      Payload("rich_text", List(<<StoredRun(Rep("y", NOTES_MAX))>>)),
      Payload("rich_text", List(<<StoredRun(Rep("y", 5)), StoredRun(Rep("z", 5))>>)) }
NotesPage(notes) ==
    Page("p1", [n \in {"Status"} \cup (IF notes.k = "None" THEN {} ELSE {NOTES_PROPERTY}) |->
                  IF n = "Status" THEN Payload("status", Named(Str(W("To Do")))) ELSE notes])

\* The writes the page has seen: the updates that succeeded.
RECURSIVE Writes(_)
Writes(issued) ==
    IF issued = <<>> THEN 0
    ELSE (IF Head(issued).api = "pages.update" /\ Head(issued).ok THEN 1 ELSE 0)
         + Writes(Tail(issued))

InitNotes ==
    /\ \E notes \in ExistingNotes : remote_pages = [id \in {"p1"} |-> NotesPage(notes)]
    /\ remote_schema = <<>>
    /\ schema_cache = NONE
    /\ calls = <<>>
    /\ op = [name |-> "init"]
    /\ ret = NONE
    /\ notes_pc = [c \in Callers |-> "idle"]
    /\ notes_local = [c \in Callers |->
                        [text |-> <<>>, current |-> <<>>, whole |-> <<>>, written |-> <<>>,
                         read_ver |-> 0, wrote_ver |-> 0, n |-> 0]]
    /\ EditorIdle
    /\ ChatIdle

\* The call starts: client.pages.retrieve(page_id), then current and new_text.
NotesRead(c, text, ok) ==
    /\ notes_pc[c] \in {"idle", "done", "raised"}
    /\ notes_local[c].n < MaxAppends
    /\ op' = [name |-> "append_notes", caller |-> c, text |-> text]
    /\ calls' = Append(calls, [api |-> "pages.retrieve", page_id |-> "p1", ok |-> ok])
    /\ IF ok
       THEN /\ notes_pc' = [notes_pc EXCEPT ![c] = "read"]
            /\ notes_local' = [notes_local EXCEPT ![c] =
                                 [text |-> text,
                                  current |-> CurrentNotes(remote_pages["p1"].properties),
                                  whole |-> WholeNotes(remote_pages["p1"].properties),
                                  written |-> <<>>, read_ver |-> Writes(calls),
                                  wrote_ver |-> 0, n |-> @.n + 1]]
            /\ ret' = NONE
       ELSE /\ notes_pc' = [notes_pc EXCEPT ![c] = "raised"]
            /\ notes_local' = [notes_local EXCEPT ![c].text = text, ![c].n = @ + 1]
            /\ ret' = Raise("APIResponseError", "retrieve failed")
    /\ UNCHANGED <<schema_cache, remote_schema, remote_pages, editor_vars, chat_vars>>

\* client.pages.update(page_id, properties={"Notes or Description": ...}) with
\* the text built from what this caller read.
NotesWriteAs(c, ok, new_text) ==
    /\ notes_pc[c] = "read"
    /\ op' = [name |-> "append_notes", caller |-> c, text |-> notes_local[c].text]
    /\ calls' = Append(calls, [api |-> "pages.update", page_id |-> "p1", ok |-> ok,
                               properties |-> AppendPatch(new_text)])
    /\ IF ok
       THEN /\ remote_pages' = PagesUpdate(remote_pages, "p1", AppendPatch(new_text))
            /\ notes_pc' = [notes_pc EXCEPT ![c] = "done"]
            /\ notes_local' = [notes_local EXCEPT ![c].written = Prefix(new_text, NOTES_MAX),
                                                  ![c].wrote_ver = Writes(calls')]
            /\ ret' = Return(NONE)
       ELSE /\ remote_pages' = remote_pages
            /\ notes_pc' = [notes_pc EXCEPT ![c] = "raised"]
            /\ notes_local' = notes_local
            /\ ret' = Raise("APIResponseError", "update failed")
    /\ UNCHANGED <<schema_cache, remote_schema, editor_vars, chat_vars>>

\* A write that appends to the notes the page holds when it is written.
NotesWriteMerged(c, ok) ==
    /\ notes_pc[c] = "read"
    /\ NotesWriteAs(c, ok, NewText(CurrentNotes(remote_pages["p1"].properties),
                                   notes_local[c].text))

NotesWrite(c, ok) ==
    /\ notes_pc[c] = "read"
    /\ NotesWriteAs(c, ok, NewText(notes_local[c].current, notes_local[c].text))

NextNotes ==
    \/ \E c \in Callers, text \in NoteTexts, ok \in BOOLEAN : NotesRead(c, text, ok)
    \/ \E c \in Callers, ok \in BOOLEAN : NotesWrite(c, ok)

SpecNotes == InitNotes /\ [][NextNotes]_vars

\* The notes the page holds, as append_notes would read them.
FinalNotes == CurrentNotes(remote_pages["p1"].properties)

\* C6: for every existing notes text and every appended text, the content
\* append_notes writes back is at most 2000 characters long and ends with the
\* newly appended text.
C6_WrittenEndsWithText ==
    \A c \in Callers :
        notes_pc[c] = "done"
        => /\ TextLen(notes_local[c].written) <= NOTES_MAX
           /\ EndsWith(notes_local[c].written, notes_local[c].text)

\* C23: the content append_notes writes back is the first 2000 characters of
\* the page's entire notes text followed by the new timestamped line, also when
\* the stored notes are several rich-text runs.
C23_WholeNotesKept ==
    \A c \in Callers :
        notes_pc[c] = "done"
        => notes_local[c].written =
              Prefix(NewText(notes_local[c].whole, notes_local[c].text), NOTES_MAX)

\* Both calls read before either wrote, then c wrote and d wrote last.
Interleaved(c, d) ==
    /\ notes_pc[c] = "done" /\ notes_pc[d] = "done"
    /\ notes_local[c].read_ver = notes_local[d].read_ver
    /\ notes_local[c].wrote_ver = notes_local[c].read_ver + 1
    /\ notes_local[d].wrote_ver = notes_local[c].read_ver + 2
    /\ Writes(calls) = notes_local[d].wrote_ver
\* c's call was over when d's read, and d's write is the last.
Serial(c, d) ==
    /\ notes_pc[c] = "done" /\ notes_pc[d] = "done"
    /\ notes_local[c].wrote_ver = notes_local[c].read_ver + 1
    /\ notes_local[d].read_ver = notes_local[c].wrote_ver
    /\ notes_local[d].wrote_ver = notes_local[d].read_ver + 1
    /\ Writes(calls) = notes_local[d].wrote_ver
\* c's text is one the notes did not hold before and d did not append.
FreshText(c, d) ==
    /\ ~ContainsText(notes_local[c].current, notes_local[c].text)
    /\ ~ContainsText(notes_local[d].text, notes_local[c].text)
WithinLimit(c, d) ==
    TextLen(NewText(NewText(notes_local[c].current, notes_local[c].text),
                    notes_local[d].text)) <= NOTES_MAX

\* C7: when two append_notes calls on the same page interleave (both read
\* before either writes), the final notes are the last writer's text built on
\* what both read, and the other appended text is lost; in a serial order of
\* the two calls the final notes hold both texts, within the 2000-character
\* limit.
C7_LostUpdate ==
    \A c \in Callers, d \in Callers :
        /\ (c # d /\ Interleaved(c, d))
           => /\ FinalNotes = Prefix(NewText(notes_local[c].current, notes_local[d].text),
                                     NOTES_MAX)
              /\ FreshText(c, d) => ~ContainsText(FinalNotes, notes_local[c].text)
        /\ (c # d /\ Serial(c, d) /\ WithinLimit(c, d))
           => /\ ContainsText(FinalNotes, Stamped(notes_local[c].text))
              /\ EndsWith(FinalNotes, Stamped(notes_local[d].text))

\* Two calls interleaved, with texts that tell them apart.
C7_Witness ==
    \E c \in Callers, d \in Callers :
        c # d /\ Interleaved(c, d) /\ FreshText(c, d) /\ notes_local[c].current # <<>>

(***************************************************************************)
(* NotionHelper.create_task and update_property.  An operation of the      *)
(* helper gives [ret, pages, calls, cache]: how it ended, the remote pages *)
(* after it, the remote calls it issued, and _schema_cache after it.       *)
(***************************************************************************)
Result(r, pages, issued, cache) == [ret |-> r, pages |-> pages, calls |-> issued, cache |-> cache]
Default(name, value) == [name |-> name, value |-> value]
CreateCall(properties) == [api |-> "pages.create", properties |-> properties]

\* client.pages.create(...) on the remote: a new page, under the next id, with
\* the properties it was sent.
NextPageId(pages) == PageIdSeq[Cardinality(DOMAIN pages) + 1]
PagesCreate(pages, properties) ==
    [id \in DOMAIN pages \cup {NextPageId(pages)} |->
        IF id \in DOMAIN pages THEN pages[id]
        ELSE Page(id, [n \in DOMAIN properties |-> Served(properties[n])])]

\* for k, v in defaults.items(): properties[k] = self._value_for_property(k, v)
RECURSIVE EncodeDefaults(_, _, _)
\* A loop that leaves out a default it cannot encode.
EncodeNextSkipping(schema, defaults, properties, encoded) ==
    IF encoded.k = "raise" THEN EncodeDefaults(schema, Tail(defaults), properties)
    ELSE EncodeDefaults(schema, Tail(defaults),
                        DictSet(properties, Head(defaults).name, encoded.v))
EncodeNext(schema, defaults, properties, encoded) ==
    IF encoded.k = "raise" THEN encoded
    ELSE EncodeDefaults(schema, Tail(defaults),
                        DictSet(properties, Head(defaults).name, encoded.v))
EncodeDefaults(schema, defaults, properties) ==
    IF defaults = <<>> THEN Return(properties)
    ELSE EncodeNext(schema, defaults, properties,
                    value_for_property(schema, Head(defaults).name, Head(defaults).value))

TitleProperties(title) == [n \in {TITLE_PROPERTY} |-> Payload("title", List(<<Run(title)>>))]
CreateWith(pages, properties, remote_ok, cache) ==
    IF properties.k = "raise" THEN Result(properties, pages, <<>>, cache)
    ELSE IF remote_ok
    THEN Result(Return(NextPageId(pages)), PagesCreate(pages, properties.v),
                <<CreateCall(properties.v)>>, cache)
    ELSE Result(Raise("APIResponseError", "create failed"), pages,
                <<CreateCall(properties.v)>>, cache)
\* The schema is first asked for by the first default encoded.
CreateUnder(cache, pages, title, defaults, remote_ok) ==
    CreateWith(pages, EncodeDefaults(cache.d, defaults, TitleProperties(title)), remote_ok, cache)

\* create_task with `if not title:` for `if not title.strip():`.
create_task_unstripped(cache, served, sdk_ok, http_ok, pages, title, defaults, remote_ok) ==
    IF title = <<>>
    THEN Result(Raise("ValueError", "Title cannot be empty"), pages, <<>>, cache)
    ELSE IF defaults = <<>>
    THEN CreateWith(pages, Return(TitleProperties(title)), remote_ok, cache)
    ELSE CreateUnder(Dict(SchemaCall(cache, served, sdk_ok, http_ok)), pages, title, defaults,
                     remote_ok)

\* NotionHelper.create_task(title, defaults)
create_task(cache, served, sdk_ok, http_ok, pages, title, defaults, remote_ok) ==
    IF Strip(title) = <<>>
    THEN Result(Raise("ValueError", "Title cannot be empty"), pages, <<>>, cache)
    ELSE IF defaults = <<>>
    THEN CreateWith(pages, Return(TitleProperties(title)), remote_ok, cache)
    ELSE CreateUnder(Dict(SchemaCall(cache, served, sdk_ok, http_ok)), pages, title, defaults,
                     remote_ok)

\* The properties mapping update_property sends, and one that also sends the
\* page's other properties back.
PatchOfWholePage(pages, page_id, property_name, notion_value) ==
    [n \in DOMAIN pages[page_id].properties \cup {property_name} |->
        IF n = property_name THEN notion_value ELSE Payload("rich_text", List(<<>>))]
SinglePatch(pages, page_id, property_name, notion_value) ==
    [n \in {property_name} |-> notion_value]

UpdateWith(cache, pages, page_id, property_name, notion_value, remote_ok) ==
    IF notion_value.k = "raise" THEN Result(notion_value, pages, <<>>, cache)
    ELSE IF remote_ok
    THEN Result(Return(NONE),
                PagesUpdate(pages, page_id,
                            SinglePatch(pages, page_id, property_name, notion_value.v)),
                <<UpdateCall(page_id, SinglePatch(pages, page_id, property_name, notion_value.v))>>,
                cache)
    ELSE Result(Raise("APIResponseError", "update failed"), pages,
                <<UpdateCall(page_id, SinglePatch(pages, page_id, property_name, notion_value.v))>>,
                cache)
UpdateUnder(cache, pages, page_id, property_name, new_value, remote_ok) ==
    IF property_name \notin SchemaNames(cache.d)
    THEN Result(Raise("ValueError", "Unknown property"), pages, <<>>, cache)
    ELSE UpdateWith(cache, pages, page_id, property_name,
                    value_for_property(cache.d, property_name, new_value), remote_ok)

\* NotionHelper.update_property(page_id, property_name, new_value)
update_property(cache, served, sdk_ok, http_ok, pages, page_id, property_name, new_value, remote_ok) ==
    UpdateUnder(Dict(SchemaCall(cache, served, sdk_ok, http_ok)), pages, page_id, property_name,
                new_value, remote_ok)

(***************************************************************************)
(* SpecRepo: the helper's writes on a database that starts with one task.  *)
(* Each step is one create_task or update_property call with any of the    *)
(* inputs below, any outcome of the schema fetch it may need and any       *)
(* outcome of its remote write; op keeps the inputs and the remote pages   *)
(* the call started from.                                                  *)
(***************************************************************************)
MaxPages == 2

RepoSchema ==
    << Prop("Title", "title", <<>>, <<>>),
       Prop("Status", "status",
            <<[id |-> "o1", name |-> W("To Do")], [id |-> "o2", name |-> W("Done")]>>,
            <<[name |-> W("Active"), option_ids |-> <<"o1">>],
              [name |-> W("Complete"), option_ids |-> <<"o2">>]>>),
       Prop("Due Date", "date", <<>>, <<>>) >>

RepoTitles == {<<>>, Rep(" ", 2), Concat(W(" "), W("Ship")), W("Ship")}
RepoDefaults ==
    { <<>>,
      <<Default("Status", Str(W("To Do")))>>,
      <<Default("Status", Str(W("To Do"))), Default("Due Date", Str(W("2025-01-01")))>>,
      <<Default("Status", Str(W("To Do"))), Default("Bogus", Str(W("x")))>>,
      <<Default("Bogus", Str(W("x"))), Default("Due Date", Str(W("2025-01-01")))>> }
RepoUpdates ==
    { Default("Status", Str(W("Done"))), Default("Status", NONE),
      Default("Due Date", Str(W("2025-01-01"))), Default("Bogus", Str(W("x"))) }

RepoPage ==
    Page("p1", [n \in {"Title", "Status"} |->
                  IF n = "Title" THEN TitleRuns(W("Plan"))
                  ELSE Payload("status", Named(Str(W("To Do"))))])

InitRepo ==
    /\ remote_schema = RepoSchema
    /\ remote_pages = [id \in {"p1"} |-> RepoPage]
    /\ schema_cache = NONE
    /\ calls = <<>>
    /\ op = [name |-> "init"]
    /\ ret = NONE
    /\ NotesIdle
    /\ EditorIdle
    /\ ChatIdle

RepoEnds(out) ==
    /\ ret' = out.ret
    /\ remote_pages' = out.pages
    /\ calls' = out.calls
    /\ schema_cache' = out.cache
    /\ UNCHANGED <<remote_schema, notes_vars, editor_vars, chat_vars>>

CreateTask(title, defaults, sdk_ok, http_ok, remote_ok) ==
    /\ Cardinality(DOMAIN remote_pages) < MaxPages
    /\ op' = [name |-> "create_task", title |-> title, defaults |-> defaults,
              before |-> remote_pages]
    /\ RepoEnds(create_task(schema_cache, remote_schema, sdk_ok, http_ok, remote_pages, title,
                            defaults, remote_ok))

UpdateProperty(page_id, property_name, new_value, sdk_ok, http_ok, remote_ok) ==
    /\ op' = [name |-> "update_property", page_id |-> page_id,
              property_name |-> property_name, new_value |-> new_value,
              before |-> remote_pages]
    /\ RepoEnds(update_property(schema_cache, remote_schema, sdk_ok, http_ok, remote_pages,
                                page_id, property_name, new_value, remote_ok))

NextRepo ==
    \/ \E title \in RepoTitles, defaults \in RepoDefaults, fetch \in FetchOutcomes(schema_cache),
          remote_ok \in BOOLEAN :
          CreateTask(title, defaults, fetch[1], fetch[2], remote_ok)
    \/ \E page_id \in DOMAIN remote_pages, u \in RepoUpdates,
          fetch \in FetchOutcomes(schema_cache), remote_ok \in BOOLEAN :
          UpdateProperty(page_id, u.name, u.value, fetch[1], fetch[2], remote_ok)

SpecRepo == InitRepo /\ [][NextRepo]_vars

\* The schema the helper holds once it has asked for it; the remote's before.
HelperSchema == IF schema_cache.k = "dict" THEN schema_cache.d ELSE remote_schema
BlankTitle == Strip(op.title) = <<>>
UnknownDefault ==
    \E i \in 1..Len(op.defaults) : op.defaults[i].name \notin SchemaNames(HelperSchema)
CreatedOne ==
    /\ ret.v \notin DOMAIN op.before
    /\ DOMAIN remote_pages = DOMAIN op.before \cup {ret.v}
    /\ \A id \in DOMAIN op.before : remote_pages[id] = op.before[id]
    /\ JoinPlain(remote_pages[ret.v].properties[TITLE_PROPERTY].val.xs) = op.title

\* C8: create_task with an empty or whitespace-only title fails with a
\* validation error and issues no page-create call; with a non-blank title and
\* defaults that all name schema properties it issues exactly one page-create
\* call and returns the id of the page the remote created (the failure of that
\* one call is the only other way it ends, and then no page exists).
C8_CreateValidation ==
    op.name = "create_task"
    => /\ BlankTitle
          => /\ ret = Raise("ValueError", "Title cannot be empty")
             /\ calls = <<>>
             /\ remote_pages = op.before
       /\ (~BlankTitle /\ ~UnknownDefault)
          => /\ Len(calls) = 1
             /\ calls[1].api = "pages.create"
             /\ IF ret.k = "return" THEN CreatedOne
                ELSE ret.exc = "APIResponseError" /\ remote_pages = op.before

C8_Witness ==
    /\ op.name = "create_task"
    /\ ~BlankTitle /\ ~UnknownDefault /\ Len(op.defaults) = 2
    /\ ret.k = "return"

\* C9: create_task whose defaults contain a property name absent from the
\* schema fails with a configuration error (ValueError, "Unknown property"
\* unless the title check failed first), and no page is created: no create call
\* is issued and the remote database is unchanged.
C9_UnknownDefaultFails ==
    (op.name = "create_task" /\ UnknownDefault)
    => /\ ret.k = "raise"
       /\ ret.exc = "ValueError"
       /\ ~BlankTitle => ret.msg = "Unknown property"
       /\ calls = <<>>
       /\ remote_pages = op.before

\* The unknown name comes after a known one, under a schema that was fetched.
C9_Witness ==
    /\ op.name = "create_task"
    /\ ~BlankTitle
    /\ Len(op.defaults) = 2
    /\ op.defaults[1].name \in SchemaNames(HelperSchema)
    /\ op.defaults[2].name \notin SchemaNames(HelperSchema)
    /\ ret.k = "raise"

\* Every property of every page but the one named is as it was.
OthersUnchanged ==
    /\ DOMAIN remote_pages = DOMAIN op.before
    /\ \A id \in DOMAIN op.before :
          /\ DOMAIN remote_pages[id].properties \subseteq
                DOMAIN op.before[id].properties \cup {op.property_name}
          /\ \A n \in DOMAIN op.before[id].properties :
                (id # op.page_id \/ n # op.property_name)
                => remote_pages[id].properties[n] = op.before[id].properties[n]

\* C10: update_property with a property name absent from the schema fails with
\* a configuration error and issues no remote update; with a known name it
\* issues exactly one page update, on that page, whose properties mapping holds
\* that single property, and every other property of the page is unchanged.
C10_SinglePropertyPatch ==
    op.name = "update_property"
    => IF op.property_name \notin SchemaNames(HelperSchema)
       THEN /\ ret = Raise("ValueError", "Unknown property")
            /\ calls = <<>>
            /\ remote_pages = op.before
       ELSE /\ Len(calls) = 1
            /\ calls[1].api = "pages.update"
            /\ calls[1].page_id = op.page_id
            /\ DOMAIN calls[1].properties = {op.property_name}
            /\ OthersUnchanged

\* A known property of a page that has others was updated.
C10_Witness ==
    /\ op.name = "update_property"
    /\ op.property_name \in SchemaNames(HelperSchema)
    /\ ret.k = "return"
    /\ remote_pages # op.before
    /\ DOMAIN op.before[op.page_id].properties \ {op.property_name} # {}

(***************************************************************************)
(* SpecHelper: the schema cache and the database queries of one helper     *)
(* over a remote whose schema changes.  The remote serves one of two       *)
(* schemas; the operations are schema(), refresh_schema(), the codec        *)
(* (_value_for_property), the filter (_status_filter), the resolver         *)
(* (_active_status_names) and the queries list_active_tasks and             *)
(* list_completed_in_range.  calls is the remote calls of the last          *)
(* operation, schema fetches included.  op carries the history: refreshed   *)
(* is the schema the remote served in the last refresh_schema() (None if    *)
(* there was none, or it served nothing), served the schemas it ever        *)
(* served to this helper, prior the cache before the operation, again       *)
(* whether refresh_schema() directly follows a refresh_schema() under the   *)
(* same remote schema.                                                      *)
(***************************************************************************)
WiderSchema ==
    << Prop("Title", "title", <<>>, <<>>),
       Prop("Status", "status",
            <<[id |-> "o1", name |-> W("To Do")], [id |-> "o2", name |-> W("Done")],
              [id |-> "o3", name |-> W("Blocked")]>>,
            <<[name |-> W("Active"), option_ids |-> <<"o1", "o3">>],
              [name |-> W("Complete"), option_ids |-> <<"o2">>]>>),
       Prop("Due Date", "date", <<>>, <<>>),
       Prop("Owner", "rich_text", <<>>, <<>>) >>
SchemaVersions == {RepoSchema, WiderSchema}

HelperPages ==
    [id \in {"p1", "p2"} |->
        Page(id, [n \in {"Title", "Status"} |->
                    IF n = "Title" THEN TitleRuns(W("Plan"))
                    ELSE Payload("status",
                                 Named(Str(IF id = "p1" THEN W("To Do") ELSE W("Done"))))])]

\* The databases.retrieve calls of schema(): none with a schema cached; else
\* the SDK call, and the HTTP call when the SDK call gave no properties.
SchemaFetchCall(via, ok) == [api |-> "databases.retrieve", via |-> via, ok |-> ok]
FetchCalls(cache, served, sdk_ok, http_ok) ==
    IF cache.k # "None" THEN <<>>
    ELSE <<SchemaFetchCall("sdk", sdk_ok)>>
         \o (IF sdk_ok /\ served # <<>> THEN <<>> ELSE <<SchemaFetchCall("http", http_ok)>>)

\* refresh_schema() without the invalidation: schema() on the cache as it is.
refresh_schema_cached(cache, served, sdk_ok, http_ok) ==
    SchemaCall(cache, served, sdk_ok, http_ok)

\* NotionHelper.refresh_schema(): the cache is dropped, then schema().
refresh_schema(cache, served, sdk_ok, http_ok) == SchemaCall(NONE, served, sdk_ok, http_ok)

\* What the remote served during an operation: its schema, when a fetch was
\* made and one of the paths answered.
ServedIn(cache, served, sdk_ok, http_ok) ==
    IF cache.k = "None" /\ (sdk_ok \/ http_ok) THEN {served} ELSE {}

\* NotionHelper.list_completed_in_range(days).  The remote evaluates the
\* last_edited_time clause: recent are the pages edited in the range.
CompletedQuery(clause) ==
    [filter |-> [k |-> "filter", bool |-> "and",
                 clauses |-> <<clause, [property |-> "last_edited_time", key |-> "timestamp",
                                        cond |-> "on_or_after", value |-> "since"]>>],
     sorts |-> <<[timestamp |-> "last_edited_time", direction |-> "descending"]>>]
EditedSince(pages, recent) == [id \in DOMAIN pages \cap recent |-> pages[id]]
CompletedWith(schema, pages, transport, clause) ==
    IF clause.k = "raise" THEN clause
    ELSE TasksOf(schema, <<clause.v.value>>,
                 query_db(pages, transport,
                          [filter |-> [k |-> "filter", bool |-> "and",
                                       clauses |-> <<clause.v>>]]))
list_completed_in_range(schema, pages, transport, recent) ==
    CompletedWith(schema, EditedSince(pages, recent), transport, status_filter(schema, W("Done")))
CompletedCalls(transport, clause) ==
    IF clause.k = "raise" THEN <<>> ELSE <<QueryCall(transport, CompletedQuery(clause.v))>>

InitHelper ==
    /\ remote_schema \in SchemaVersions
    /\ remote_pages = HelperPages
    /\ schema_cache = NONE
    /\ calls = <<>>
    /\ op = [name |-> "init", arg |-> NONE, transport |-> NONE, refreshed |-> NONE,
             served |-> {}, prior |-> NONE, again |-> FALSE]
    /\ ret = NONE
    /\ NotesIdle
    /\ EditorIdle
    /\ ChatIdle

\* An operation that starts with schema(): the cache and the history after it.
HelperCalls(name, arg, transport, sdk_ok, http_ok) ==
    /\ schema_cache' = Dict(SchemaCall(schema_cache, remote_schema, sdk_ok, http_ok))
    /\ op' = [name |-> name, arg |-> arg, transport |-> transport,
              refreshed |-> op.refreshed,
              served |-> op.served \cup ServedIn(schema_cache, remote_schema, sdk_ok, http_ok),
              prior |-> schema_cache, again |-> FALSE]
    /\ UNCHANGED <<remote_schema, remote_pages, notes_vars, editor_vars, chat_vars>>

SchemaRead(sdk_ok, http_ok) ==
    /\ HelperCalls("schema", NONE, NONE, sdk_ok, http_ok)
    /\ ret' = Return(schema_cache')
    /\ calls' = FetchCalls(schema_cache, remote_schema, sdk_ok, http_ok)

RefreshSchema(sdk_ok, http_ok) ==
    /\ schema_cache' = Dict(refresh_schema(schema_cache, remote_schema, sdk_ok, http_ok))
    /\ op' = [name |-> "refresh_schema", arg |-> Dict(remote_schema), transport |-> NONE,
              refreshed |-> IF sdk_ok \/ http_ok THEN Dict(remote_schema) ELSE NONE,
              served |-> op.served \cup ServedIn(NONE, remote_schema, sdk_ok, http_ok),
              prior |-> schema_cache,
              again |-> op.name = "refresh_schema" /\ op.arg = Dict(remote_schema)]
    /\ ret' = Return(schema_cache')
    /\ calls' = FetchCalls(NONE, remote_schema, sdk_ok, http_ok)
    /\ UNCHANGED <<remote_schema, remote_pages, notes_vars, editor_vars, chat_vars>>

\* The database's owner edits its properties.
RemoteSchemaChanges(served) ==
    /\ served # remote_schema
    /\ remote_schema' = served
    /\ UNCHANGED <<schema_cache, remote_pages, calls, op, ret, notes_vars, editor_vars, chat_vars>>

ValueForProperty(property_name, value, sdk_ok, http_ok) ==
    /\ HelperCalls("_value_for_property", [name |-> property_name, value |-> value], NONE,
                   sdk_ok, http_ok)
    /\ ret' = value_for_property(schema_cache'.d, property_name, value)
    /\ calls' = FetchCalls(schema_cache, remote_schema, sdk_ok, http_ok)

StatusFilter(value, sdk_ok, http_ok) ==
    /\ HelperCalls("_status_filter", value, NONE, sdk_ok, http_ok)
    /\ ret' = status_filter(schema_cache'.d, value)
    /\ calls' = FetchCalls(schema_cache, remote_schema, sdk_ok, http_ok)

ResolveActive(sdk_ok, http_ok) ==
    /\ HelperCalls("_active_status_names", NONE, NONE, sdk_ok, http_ok)
    /\ ret' = Return(active_status_names(schema_cache'.d))
    /\ calls' = FetchCalls(schema_cache, remote_schema, sdk_ok, http_ok)

ListActive(sdk_ok, http_ok, transport) ==
    /\ HelperCalls("list_active_tasks", NONE, transport, sdk_ok, http_ok)
    /\ ret' = list_active_tasks(schema_cache'.d, remote_pages, transport)
    /\ calls' = FetchCalls(schema_cache, remote_schema, sdk_ok, http_ok)
                \o QueryCalls(transport, active_tasks_query(schema_cache'.d))

ListCompletedInRange(recent, sdk_ok, http_ok, transport) ==
    /\ HelperCalls("list_completed_in_range", recent, transport, sdk_ok, http_ok)
    /\ ret' = list_completed_in_range(schema_cache'.d, remote_pages, transport, recent)
    /\ calls' = FetchCalls(schema_cache, remote_schema, sdk_ok, http_ok)
                \o CompletedCalls(transport, status_filter(schema_cache'.d, W("Done")))

HelperValues == {Default("Status", Str(W("Done"))), Default("Owner", Str(W("x")))}
RecentSets == {{}, {"p2"}, {"p1", "p2"}}

NextHelper ==
    \/ \E fetch \in FetchOutcomes(schema_cache) : SchemaRead(fetch[1], fetch[2])
    \/ \E fetch \in FetchOutcomes(NONE) : RefreshSchema(fetch[1], fetch[2])
    \/ \E served \in SchemaVersions : RemoteSchemaChanges(served)
    \/ \E u \in HelperValues, fetch \in FetchOutcomes(schema_cache) :
          ValueForProperty(u.name, u.value, fetch[1], fetch[2])
    \/ \E fetch \in FetchOutcomes(schema_cache) : StatusFilter(W("Done"), fetch[1], fetch[2])
    \/ \E fetch \in FetchOutcomes(schema_cache) : ResolveActive(fetch[1], fetch[2])
    \/ \E fetch \in FetchOutcomes(schema_cache), transport \in Transports :
          ListActive(fetch[1], fetch[2], transport)
    \/ \E recent \in RecentSets, fetch \in FetchOutcomes(schema_cache), transport \in Transports :
          ListCompletedInRange(recent, fetch[1], fetch[2], transport)

SpecHelper == InitHelper /\ [][NextHelper]_vars

\* What the operation op would give under this schema.
UnderSchema(schema) ==
    CASE op.name = "_value_for_property" ->
            value_for_property(schema, op.arg.name, op.arg.value)
      [] op.name = "_status_filter" -> status_filter(schema, op.arg)
      [] op.name = "_active_status_names" -> Return(active_status_names(schema))
      [] op.name = "list_active_tasks" -> list_active_tasks(schema, remote_pages, op.transport)
      [] op.name = "list_completed_in_range" ->
            list_completed_in_range(schema, remote_pages, op.transport, op.arg)
SchemaUsers ==
    {"_value_for_property", "_status_filter", "_active_status_names", "list_active_tasks",
     "list_completed_in_range"}

\* C11: once refresh_schema() has returned the schema the remote served in it,
\* the cache is that schema, whatever was cached before, and every codec,
\* filter, resolver and query operation until the next refresh computes with
\* it, also after the remote schema has changed again.
C11_RefreshedSchemaInUse ==
    op.refreshed.k = "dict"
    => /\ op.name = "refresh_schema" => (schema_cache = op.refreshed /\ ret = Return(op.refreshed))
       /\ op.name \in SchemaUsers => ret = UnderSchema(op.refreshed.d)

\* The codec encodes a property that only the refreshed schema declares; the
\* remote has since gone back to the schema without it.
C11_Witness ==
    /\ op.name = "_value_for_property"
    /\ op.arg.name = "Owner"
    /\ op.refreshed = Dict(WiderSchema)
    /\ remote_schema = RepoSchema
    /\ ret.k = "return"

\* C12: after any sequence of schema() and refresh_schema() calls, fetches that
\* fail on both paths included, the cached schema is one the remote served to
\* the helper, and a refresh_schema() that directly follows a refresh_schema()
\* under the same remote schema leaves the cache as the first left it.
C12_CacheIsServed ==
    /\ schema_cache.k = "dict" => schema_cache.d \in op.served
    /\ (op.name = "refresh_schema" /\ op.again) => schema_cache = op.prior

\* The operation's databases.retrieve calls and its databases.query calls.
CallsOf(api) == SelectSeq(calls, LAMBDA c : c.api = api)
FallbackOnFailure(fetches) ==
    (fetches # <<>> /\ ~fetches[1].ok)
    => /\ Len(fetches) = 2
       /\ fetches[2].via = "http"
       /\ ~fetches[2].ok => ret.k = "raise"
QueryFallback(queries) ==
    (queries # <<>> /\ op.transport.sdk /\ ~op.transport.ok)
    => /\ Len(queries) = 2
       /\ queries[2].via = "http"

\* C13: when the first remote call of a schema retrieval or of a database
\* query (list_active_tasks, list_completed_in_range) fails, exactly one more
\* call is made, on the other transport path, and when that fails too the
\* operation raises.
C13_OneFallbackThenSurfaced ==
    /\ FallbackOnFailure(CallsOf("databases.retrieve"))
    /\ op.name \in {"list_active_tasks", "list_completed_in_range"}
       => QueryFallback(CallsOf("databases.query"))

UnsupportedTags == {"formula"}

\* What the remote serves under the type key.
WireValues(t) ==
    CASE t \in {"title", "rich_text"} -> {List(<<>>), List(<<StoredRun(W("x"))>>)}
      [] t \in {"select", "status"} -> {Named(Str(W("To Do")))}
      [] t = "multi_select" -> {List(<<>>), List(<<Named(Str(W("red")))>>)}
      [] t = "number" -> {Num(3)}
      [] t = "date" -> {DateObj(Str(W("2025-11-03")))}
      [] t = "checkbox" -> {Bool(FALSE)}
      [] t = "people" -> {List(<<Person(Str(W("u1")), NONE)>>)}
      [] OTHER -> {Str(W("x"))}
RawPayloads(t) == {NONE, Payload(t, NONE)} \cup {Payload(t, v) : v \in WireValues(t)}

InitDecode ==
    /\ \E t \in TypeTags \cup UnsupportedTags : \E payload \in RawPayloads(t) :
          op = [name |-> "decode", stage |-> "input", prop_type |-> t, payload |-> payload]
    /\ remote_schema = <<>>
    /\ schema_cache = Dict(<<>>)
    /\ remote_pages = [id \in {"p1"} |-> Page(id, NoProps)]
    /\ calls = <<>>
    /\ ret = NONE
    /\ NotesIdle
    /\ EditorIdle
    /\ ChatIdle

DecodeEnds(stage, schema, properties, out) ==
    /\ op' = [op EXCEPT !.stage = stage]
    /\ ret' = IF IsRaise(out) THEN out ELSE Return(out)
    /\ remote_schema' = schema
    /\ schema_cache' = Dict(schema)
    /\ remote_pages' = [id \in {"p1"} |-> Page(id, properties)]
    /\ UNCHANGED <<calls, notes_vars, editor_vars, chat_vars>>

\* _extract_property_value on the payload.
ExtractPropertyValue ==
    /\ op.stage = "input"
    /\ DecodeEnds("decoded", CodecSchema(op.prop_type), NoProps,
                  extract_property_value(op.prop_type, op.payload))

\* _page_to_task on a page that lacks P (declared) or holds the payload under
\* P, P declared by the schema or not.
PageToTask(declared, present) ==
    /\ op.stage = "input"
    /\ declared \/ present
    /\ present \/ op.payload.k = "None"
    /\ DecodeEnds(IF declared THEN "declared" ELSE "undeclared",
                  IF declared THEN CodecSchema(op.prop_type) ELSE <<>>,
                  IF present THEN [n \in {"P"} |-> op.payload] ELSE NoProps,
                  page_to_task(IF declared THEN CodecSchema(op.prop_type) ELSE <<>>,
                               Page("p1", IF present THEN [n \in {"P"} |-> op.payload]
                                          ELSE NoProps)))

NextDecode ==
    \/ ExtractPropertyValue
    \/ \E declared \in BOOLEAN, present \in BOOLEAN : PageToTask(declared, present)

SpecDecode == InitDecode /\ [][NextDecode]_vars

\* C17: decoding never fails: for every type tag and every raw payload (missing
\* or null, or with its type-keyed field null) decode returns a value, null for
\* a type tag it does not support, and building a task from any page returns
\* the task.
C17_DecodeNeverFails ==
    (op.name = "decode" /\ op.stage # "input")
    => /\ ret.k = "return"
       /\ (op.stage = "decoded" /\ op.prop_type \in UnsupportedTags) => ret.v = NONE

\* The payload of a property of type t in valid form.
ValidForm(t, val) ==
    CASE t \in {"title", "rich_text"} ->
            val.k = "list" /\ \A i \in 1..Len(val.xs) : val.xs[i].k = "run"
      [] t \in {"select", "status"} -> val.k \in {"None", "named"}
      [] t = "multi_select" ->
            val.k = "list" /\ \A i \in 1..Len(val.xs) : val.xs[i].k = "named"
      [] t = "number" -> val.k \in {"None", "num"}
      [] t = "date" -> val.k \in {"None", "date"}
      [] t = "checkbox" -> val.k = "bool"
      [] t \in {"url", "email", "phone_number"} -> val.k \in {"None", "str"}
      [] t = "people" -> val.k = "list" /\ \A i \in 1..Len(val.xs) : val.xs[i].k = "person"
      [] OTHER -> FALSE

\* C18: for every supported type tag (people, checkbox, url, email and
\* phone_number included) and every value (the empty string and None included)
\* encode returns a payload keyed by the property's own type tag, in that
\* type's valid form; a number that cannot be parsed encodes as null.
C18_EncodeKeyedByType ==
    (op.name = "codec" /\ op.stage = "encoded")
    => /\ ret.k = "return"
       /\ ret.v.key = op.prop_type
       /\ ValidForm(op.prop_type, ret.v.val)
       /\ (op.prop_type = "number" /\ FloatOrNone(op.value).k = "None") => ret.v.val = NONE

(***************************************************************************)
(* SpecAudit: the handlers of app.py that write to the audit log: the      *)
(* create form, the archive form, the editor's change callback and          *)
(* save_message.  Each logs through LOGGER.log after its primary operation  *)
(* and the sink may fail on any of them.  ret is the notices the handler    *)
(* shows; op keeps the pages and the buffer the handler started from.  The  *)
(* helper has the schema cached from the page load.                         *)
(***************************************************************************)
MaxAuditEvents == 2

\* NotionHelper.delete_task(page_id): pages.update(page_id, archived=True).
ArchiveCall(page_id) == [api |-> "pages.update", page_id |-> page_id, archived |-> TRUE]
delete_task(pages, page_id, remote_ok) ==
    IF remote_ok
    THEN Outcome(Return(NONE), [pages EXCEPT ![page_id].archived = TRUE],
                 <<ArchiveCall(page_id)>>)
    ELSE Outcome(Raise("APIResponseError", "update failed"), pages, <<ArchiveCall(page_id)>>)

\* fetch_active_tasks(): the list cached for 60 s, or list_active_tasks().
AuditRefreshes ==
    {[hit |-> TRUE]} \cup {[hit |-> FALSE, transport |-> [sdk |-> TRUE, ok |-> ok]] : ok \in BOOLEAN}
fetch_active_tasks(refresh, tasks, schema, pages) ==
    IF refresh.hit THEN Return(tasks) ELSE list_active_tasks(schema, pages, refresh.transport)

InitAudit ==
    /\ remote_schema = RepoSchema
    /\ schema_cache = Dict(RepoSchema)
    /\ remote_pages = [id \in {"p1"} |-> RepoPage]
    /\ calls = <<>>
    /\ op = [name |-> "init", n |-> 0]
    /\ ret = NONE
    /\ NotesIdle
    /\ EditorIdle
    /\ chat_pc = "off"
    /\ session_messages = <<>>
    /\ session_tasks = list_active_tasks(RepoSchema, remote_pages, [sdk |-> TRUE, ok |-> TRUE]).v
    /\ messages = <<>>
    /\ response = NONE
    /\ received = <<>>
    /\ dispatched = <<>>
    /\ assistant_message = NONE
    /\ log_buffer = <<>>

AuditEnds(name, arg, sink_ok, notices, pages, issued, buffer, tasks) ==
    /\ op' = [name |-> name, n |-> op.n + 1, arg |-> arg, sink_ok |-> sink_ok,
              before |-> remote_pages, logged |-> log_buffer]
    /\ ret' = Return(notices)
    /\ remote_pages' = pages
    /\ calls' = issued
    /\ log_buffer' = buffer
    /\ session_tasks' = tasks
    /\ UNCHANGED <<schema_cache, remote_schema, notes_vars, editor_vars, chat_pc, session_messages,
                   messages, response, received, dispatched, assistant_message>>

\* After the log call: st.success, then the task list is fetched again; an
\* exception of the fetch goes to the same except as one of the operation.
AfterLog(name, arg, sink_ok, done, failed, pages, issued, buffer, tasks) ==
    IF tasks.k = "raise"
    THEN AuditEnds(name, arg, sink_ok, <<done, failed>>, pages, issued, buffer, session_tasks)
    ELSE AuditEnds(name, arg, sink_ok, <<done>>, pages, issued, buffer, tasks.v)

\* The "Create" button.
CreateFormWith(title, sink_ok, refresh, out) ==
    IF out.ret.k = "raise"
    THEN AuditEnds("create_task", title, sink_ok, <<"Could not create">>, out.pages,
                   out.calls, log_buffer, session_tasks)
    ELSE AfterLog("create_task", title, sink_ok, "Created", "Could not create", out.pages,
                  out.calls,
                  log(log_buffer, "create_task", [title |-> title, page_id |-> out.ret.v],
                      sink_ok),
                  fetch_active_tasks(refresh, session_tasks, schema_cache.d, out.pages))
CreateForm(title, status, remote_ok, sink_ok, refresh) ==
    /\ op.n < MaxAuditEvents
    /\ CreateFormWith(title, sink_ok, refresh,
                      create_task(schema_cache, remote_schema, TRUE, TRUE, remote_pages, title,
                                  <<Default("Status", Str(status)),
                                    Default("Due Date", Str(W("2025-01-01")))>>,
                                  remote_ok))

\* The "Archive" button, on the first task of the list with the title chosen.
ArchiveFormWith(task, sink_ok, refresh, out) ==
    IF out.ret.k = "raise"
    THEN AuditEnds("delete_task", task.id, sink_ok, <<"Could not archive">>, out.pages,
                   out.calls, log_buffer, session_tasks)
    ELSE AfterLog("delete_task", task.id, sink_ok, "Archived in Notion", "Could not archive",
                  out.pages, out.calls,
                  log(log_buffer, "delete_task", [title |-> task.title, page_id |-> task.id],
                      sink_ok),
                  fetch_active_tasks(refresh, session_tasks, schema_cache.d, out.pages))
ArchiveForm(del_sel, remote_ok, sink_ok, refresh) ==
    /\ op.n < MaxAuditEvents
    /\ \E i \in 1..Len(session_tasks) :
          /\ session_tasks[i].title = del_sel
          /\ \A j \in 1..(i - 1) : session_tasks[j].title # del_sel
          /\ ArchiveFormWith(session_tasks[i], sink_ok, refresh,
                             delete_task(remote_pages, session_tasks[i].id, remote_ok))

\* on_change_log(prop, old, new), the editor's callback after a property update.
OnChangeLog(prop, sink_ok) ==
    /\ op.n < MaxAuditEvents
    /\ AuditEnds("update_property", prop, sink_ok, <<>>, remote_pages, <<>>,
                 log(log_buffer, "update_property", [prop |-> prop], sink_ok),
                 session_tasks)

\* save_message(role, content), of the chat handler.
SaveMessage(role, content, sink_ok) ==
    /\ op.n < MaxAuditEvents
    /\ AuditEnds("chat_message", content, sink_ok, <<>>, remote_pages, <<>>,
                 save_message(log_buffer, role, content, sink_ok), session_tasks)

NextAudit ==
    \/ \E title \in {<<>>, W("Ship")}, status \in {W("To Do"), W("Done")},
          remote_ok \in BOOLEAN, sink_ok \in BOOLEAN, refresh \in AuditRefreshes :
          CreateForm(title, status, remote_ok, sink_ok, refresh)
    \/ \E del_sel \in {Str(W("Plan")), Str(W("Ship"))}, remote_ok \in BOOLEAN,
          sink_ok \in BOOLEAN, refresh \in AuditRefreshes :
          ArchiveForm(del_sel, remote_ok, sink_ok, refresh)
    \/ \E sink_ok \in BOOLEAN : OnChangeLog("Status", sink_ok)
    \/ \E role \in {"user", "assistant"}, sink_ok \in BOOLEAN :
          SaveMessage(role, Str(W("Hi")), sink_ok)

SpecAudit == InitAudit /\ [][NextAudit]_vars

\* The handler's primary operation succeeded, so its log call was made.
PrimaryDone ==
    CASE op.name = "create_task" -> DOMAIN remote_pages # DOMAIN op.before
      [] op.name = "delete_task" ->
            remote_pages[op.arg].archived /\ ~op.before[op.arg].archived
      [] OTHER -> TRUE
DoneNotice ==
    CASE op.name = "create_task" -> <<"Created">>
      [] op.name = "delete_task" -> <<"Archived in Notion">>
      [] OTHER -> <<>>

\* C19: a failure of the audit sink is caught inside EventLogger.log: no
\* handler raises, the primary operation (create, archive, property update,
\* chat) has taken effect and shows its notice of success whether or not the
\* sink failed, and the record of the event is in the in-memory buffer, followed
\* by an error entry when the sink failed.
C19_SinkFailureSwallowed ==
    (op.name # "init" /\ PrimaryDone)
    => /\ ret.k = "return"
       /\ SubSeq(ret.v, 1, Len(DoneNotice)) = DoneNotice
       /\ Len(log_buffer) = Len(op.logged) + (IF op.sink_ok THEN 1 ELSE 2)
       /\ SubSeq(log_buffer, 1, Len(op.logged)) = op.logged
       /\ DOMAIN log_buffer[Len(op.logged) + 1] = {"event", "meta"}
       /\ log_buffer[Len(op.logged) + 1].event = op.name
       /\ ~op.sink_ok => log_buffer[Len(log_buffer)] = [error |-> "sink"]

\* A task was created while the sink was failing, for the second time.
C19_Witness ==
    /\ op.name = "create_task"
    /\ ~op.sink_ok
    /\ PrimaryDone
    /\ ret = Return(<<"Created">>)
    /\ Len(op.logged) = 2

\* Where a name stands in the groups: <<g, j>> when the j-th option of the
\* g-th group has the name and the group is not named like Complete/Done.
Places(status_prop, name) ==
    {p \in UNION {{<<g, j>> : j \in 1..Len(status_prop.groups[g].option_ids)} :
                  g \in 1..Len(status_prop.groups)} :
        /\ ~IsCompleteGroup(status_prop.groups[p[1]])
        /\ OptionById(status_prop.options, status_prop.groups[p[1]].option_ids[p[2]]) = name}
Before(p, q) == p[1] < q[1] \/ (p[1] = q[1] /\ p[2] < q[2])
FirstPlace(places) == CHOOSE p \in places : \A q \in places : p = q \/ Before(p, q)
GroupedNames(status_prop, names) ==
    /\ \A i, j \in 1..Len(names) : i # j => names[i] # names[j]
    /\ Range(names) =
          {status_prop.options[i].name : i \in 1..Len(status_prop.options)}
          \cap {name \in Range(names) \cup
                         {status_prop.options[i].name : i \in 1..Len(status_prop.options)} :
                    Places(status_prop, name) # {}}
    /\ \A i, j \in 1..Len(names) :
          i < j => Before(FirstPlace(Places(status_prop, names[i])),
                          FirstPlace(Places(status_prop, names[j])))

\* C20: given a Status descriptor with groups, the resolver returns exactly
\* the names of the options that belong to some group not named complete,
\* completed or done (case-folded), in group order and then the group's option
\* order, without repeats.
C20_GroupedActiveNames ==
    (/\ op.name = "_active_status_names"
     /\ Truthy(SchemaGet(schema_cache.d, "Status"))
     /\ SchemaGet(schema_cache.d, "Status").groups # <<>>)
    => GroupedNames(SchemaGet(schema_cache.d, "Status"), ret.v)

\* The names of the options, and whether a list of names holds exactly the
\* names of a set, once each, in the order of their first place in a list.
NamesOfOptions(options) == {options[i].name : i \in 1..Len(options)} \ {<<>>}
FirstAt(list, name) == CHOOSE i \in 1..Len(list) : list[i] = name /\ \A j \in 1..(i - 1) : list[j] # name
ExactlyInOrderOf(names, set, list) ==
    /\ Range(names) = set
    /\ \A i, j \in 1..Len(names) : i < j => FirstAt(list, names[i]) < FirstAt(list, names[j])
GroupStepEmpty(status_prop) ==
    \A name \in NamesOfOptions(status_prop.options) : Places(status_prop, name) = {}
AfterGroupStep(status_prop, names) ==
    IF NamesOfOptions(status_prop.options) \cap Range(ACTIVE_STATUS_FALLBACKS) # {}
    THEN ExactlyInOrderOf(names,
                          NamesOfOptions(status_prop.options) \cap Range(ACTIVE_STATUS_FALLBACKS),
                          ACTIVE_STATUS_FALLBACKS)
    ELSE ExactlyInOrderOf(names,
                          {n \in NamesOfOptions(status_prop.options) :
                              Lower(Strip(n)) \notin COMPLETE_GROUP_NAMES},
                          [i \in 1..Len(status_prop.options) |-> status_prop.options[i].name])

ClauseFor(status_prop, name) ==
    [property |-> "Status", key |-> status_prop.type,
     cond |-> IF status_prop.type = "multi_select" THEN "contains" ELSE "equals",
     value |-> name]
OrOfClauses(filter, status_prop, active) ==
    /\ filter.k = "filter"
    /\ filter.bool = "or"
    /\ Len(filter.clauses) = Len(active)
    /\ \A i \in 1..Len(active) : filter.clauses[i] = ClauseFor(status_prop, active[i])

\* The tasks of the pages, but those whose status case-folds into the
\* completion set.
CompleteByStatus(task) ==
    /\ Truthy(DictGet(task, "status"))
    /\ DictGet(task, "status").k = "str"
    /\ Lower(Strip(DictGet(task, "status").t)) \in COMPLETE_GROUP_NAMES
AllTasks(schema, pages) ==
    LET ids == SelectSeq(PageIdSeq, LAMBDA id : id \in DOMAIN pages /\ ~pages[id].archived)
    IN [i \in 1..Len(ids) |-> page_to_task(schema, pages[ids[i]])]
ClientFiltered(r, schema, pages) ==
    \/ r.k = "raise" /\ r.exc \in {"APIResponseError", "HTTPStatusError"}
    \/ r = Return(SelectSeq(AllTasks(schema, pages), LAMBDA task : ~CompleteByStatus(task)))

\* C22: the query of list_active_tasks carries a filter if and only if the
\* active-status set is not empty; the filter is an OR of one clause per active
\* name, with equals for a Status of type status or select and contains for
\* multi_select; with the set empty the query is unfiltered and the call gives
\* the tasks but those whose status case-folds into the completion set (or the
\* query's own failure); the sort is always ascending by Due Date.
C22_ActiveTasksQuery ==
    op.name = "list_active_tasks"
    => /\ Len(calls) = 1
       /\ calls[1].kwargs.sorts = <<[property |-> "Due Date", direction |-> "ascending"]>>
       /\ IF active_status_names(schema_cache.d) = <<>>
          THEN /\ calls[1].kwargs.filter = NONE
               /\ ClientFiltered(ret, schema_cache.d, remote_pages)
          ELSE OrOfClauses(calls[1].kwargs.filter, SchemaGet(schema_cache.d, "Status"),
                           active_status_names(schema_cache.d))

(***************************************************************************)
(* The editor (ui_editor.py).  render_dynamic_editor runs once per rerun   *)
(* of the page.  A widget with a key returns the value st.session_state    *)
(* holds under the key, and its default on its first run; a user's edit    *)
(* sets that value and runs _mark_dirty before the rerun.  The task is a   *)
(* dict as _page_to_task builds it.                                        *)
(***************************************************************************)
NONE_OPTION == Str(W("-- None --"))
EDITABLE_TYPES == {"title", "rich_text", "select", "status", "multi_select", "number", "date"}
SECTION_RULES ==
    << {"title", "rich_text"}, {"date", "number"}, {"status", "select", "multi_select"} >>

\* _build_sections(schema): the editable properties, section after section.
InSection(schema, types) ==
    SelectSeq(schema, LAMBDA prop_info : prop_info.type \in types \cap EDITABLE_TYPES)
build_sections(schema) ==
    InSection(schema, SECTION_RULES[1]) \o InSection(schema, SECTION_RULES[2])
    \o InSection(schema, SECTION_RULES[3])

\* new_value in (None, "", [], (), {})
EmptyLike(v) ==
    \/ v.k = "None"
    \/ v.k = "str" /\ v.t = <<>>
    \/ v.k = "list" /\ v.xs = <<>>
value_changed(current_value, new_value, dirty) ==
    IF current_value.k = "None"
    THEN (IF EmptyLike(new_value) THEN FALSE ELSE dirty)
    ELSE current_value # new_value

current_value_of(task, prop_name) ==
    IF prop_name \in DOMAIN task.properties THEN task.properties[prop_name]
    ELSE DictGet(task, slugify(prop_name))

update_cached_task(task, prop_name, prop_info, value) ==
    SetIf(prop_name \in NOTES_PROPERTY_NAMES,
          SetIf(prop_info.type = "title",
                SetProperty(DictSet(task, slugify(prop_name), value), prop_name, value),
                "title", value),
          "notes", value)

\* The dates of the model: datetime.now().date() and one more day.  strptime
\* with "%Y-%m-%d" parses a string that is such a date and nothing else.
Today == W("2025-06-15")
PlainDates == {W("2025-01-01"), Today}
DateDefault(current_value) ==
    IF current_value.k = "str" /\ current_value.t \in PlainDates THEN current_value
    ELSE Str(Today)

\* What a widget shows on its first run: the selectbox the current value when
\* it is among the display options and the first of them otherwise, the date
\* input the parsed date or today, a text input `current_value or ""`.
OptionChoices(prop_info) ==
    {Str(prop_info.options[i].name) :
        i \in {j \in 1..Len(prop_info.options) : prop_info.options[j].name # <<>>}}
WidgetDefault(prop_info, current_value) ==
    CASE prop_info.type \in {"select", "status"} ->
            IF current_value \in OptionChoices(prop_info) THEN current_value ELSE NONE_OPTION
      [] prop_info.type = "multi_select" -> Or(current_value, List(<<>>))
      [] prop_info.type = "date" -> DateDefault(current_value)
      [] prop_info.type = "number" -> IF current_value.k = "num" THEN current_value ELSE Num(0)
      [] OTHER -> Or(current_value, Str(<<>>))
Shown(values, prop_info, current_value) ==
    IF prop_info.name \in DOMAIN values THEN values[prop_info.name]
    ELSE WidgetDefault(prop_info, current_value)
\* new_val from the widget's value: `None if choice == NONE_OPTION else choice`
NewValue(prop_info, shown) ==
    IF prop_info.type \in {"select", "status"} /\ shown = NONE_OPTION THEN NONE ELSE shown

\* One call notion.update_property(id, prop, val) of the editor followed by
\* on_change_log and _update_cached_task; an exception of update_property
\* leaves render_dynamic_editor at once.  run is the editor's run so far: the
\* cached task, the session state, the remote pages, the schema cache, the
\* remote calls, the update_property calls, pending_updates, the event log.
Written(run, prop_info, val, sink_ok, out) ==
    IF out.ret.k = "raise"
    THEN [run EXCEPT !.raised = out.ret,
                     !.calls = @ \o out.calls,
                     !.writes = Append(@, [name |-> prop_info.name, val |-> val, ok |-> FALSE])]
    ELSE [run EXCEPT !.pages = out.pages,
                     !.cache = out.cache,
                     !.calls = @ \o out.calls,
                     !.writes = Append(@, [name |-> prop_info.name, val |-> val, ok |-> TRUE]),
                     !.log = log(@, "update_property", [prop |-> prop_info.name], sink_ok),
                     !.task = update_cached_task(@, prop_info.name, prop_info, val)]
Write(run, prop_info, val, fails, sink_ok) ==
    Written(run, prop_info, val, sink_ok,
            update_property(run.cache, remote_schema, TRUE, TRUE, run.pages, run.task.id,
                            prop_info.name, val, prop_info.name \notin fails))

\* The body of the loop over the fields, lines 119-246, for one property.
Seen(run, prop_info, shown) ==
    [run EXCEPT !.values = DictSet(@, prop_info.name, shown)]
Settled(run, prop_info) ==
    IF run.raised.k = "raise" THEN run ELSE [run EXCEPT !.dirty = @ \ {prop_info.name}]
FieldChanged(run, autosave, fails, sink_ok, prop_info, new_val, changed) ==
    IF autosave /\ changed
    THEN Settled(Write(run, prop_info, new_val, fails, sink_ok), prop_info)
    ELSE IF changed
    THEN Settled([run EXCEPT !.pending = Append(@, [name |-> prop_info.name, val |-> new_val])],
                 prop_info)
    ELSE Settled(run, prop_info)
FieldNew(run, autosave, fails, sink_ok, prop_info, current_value, new_val) ==
    FieldChanged(run, autosave, fails, sink_ok, prop_info, new_val,
                 value_changed(current_value, new_val, prop_info.name \in run.dirty))
FieldShown(run, autosave, fails, sink_ok, prop_info, current_value, shown) ==
    FieldNew(Seen(run, prop_info, shown), autosave, fails, sink_ok, prop_info, current_value,
             NewValue(prop_info, shown))
Field(run, autosave, fails, sink_ok, prop_info, current_value) ==
    FieldShown(run, autosave, fails, sink_ok, prop_info, current_value,
               Shown(run.values, prop_info, current_value))
RECURSIVE Fields(_, _, _, _, _)
Fields(run, fields, autosave, fails, sink_ok) ==
    IF fields = <<>> \/ run.raised.k = "raise" THEN run
    ELSE Fields(Field(run, autosave, fails, sink_ok, Head(fields),
                      current_value_of(run.task, Head(fields).name)),
                Tail(fields), autosave, fails, sink_ok)

\* "Save All Changes": the pending updates that differ from the properties the
\* task had when the run began, written one after the other.
Desired(pending_updates, original_props) ==
    SelectSeq(pending_updates, LAMBDA u : DictGet(original_props, u.name) # u.val)
RECURSIVE SaveAll(_, _, _, _)
SaveAll(run, desired, fails, sink_ok) ==
    IF desired = <<>> \/ run.raised.k = "raise" THEN run
    ELSE SaveAll(Write(run, SchemaGet(run.cache.d, Head(desired).name), Head(desired).val,
                       fails, sink_ok),
                 Tail(desired), fails, sink_ok)
Saved(run, desired, fails, sink_ok) ==
    [SaveAll(run, desired, fails, sink_ok) EXCEPT !.returns = Bool(desired # <<>>)]
Finish(run, autosave, pressed, original_props, fails, sink_ok) ==
    IF run.raised.k = "raise" \/ autosave \/ ~pressed THEN run
    ELSE Saved(run, Desired(run.pending, original_props), fails, sink_ok)

\* render_dynamic_editor(notion, selected_task, autosave, on_change_log)
StartOfRun(task, state, pages, cache, buffer) ==
    [task |-> task, values |-> state.values, dirty |-> state.dirty, pages |-> pages,
     cache |-> cache, calls |-> <<>>, writes |-> <<>>, pending |-> <<>>, log |-> buffer,
     raised |-> NONE, returns |-> Bool(FALSE)]
render_dynamic_editor(task, state, pages, cache, buffer, autosave, pressed, fails, sink_ok) ==
    Finish(Fields(StartOfRun(task, state, pages, cache, buffer), build_sections(cache.d),
                  autosave, fails, sink_ok),
           autosave, pressed, task.properties, fails, sink_ok)

(***************************************************************************)
(* SpecEditor: the editor on one task of a database with a title, a status *)
(* and a date property.  The task's status is unset, an option of the      *)
(* schema, or a name the schema does not list; its date is unset, a plain  *)
(* date, or a date with a time.  Each step is one rerun: with or without   *)
(* auto-save, after an edit of one widget or none, with the save button    *)
(* pressed or not; any one remote write may fail.  op keeps the inputs of  *)
(* the run, the task it began with, the update_property calls it made, and *)
(* the properties the user has edited so far.                              *)
(***************************************************************************)
MaxRenders == 3

EditorStatuses == {NONE, Payload("status", Named(Str(W("To Do")))),
                   Payload("status", Named(Str(W("Blocked"))))}
EditorDates == {NONE, Payload("date", DateObj(Str(W("2025-01-01")))),
                Payload("date", DateObj(Str(Concat(W("2025-01-01"), W("T10:00")))))}
EditorPage(status, date) ==
    Page("p1", [n \in {"Title"} \cup (IF status.k = "None" THEN {} ELSE {"Status"})
                      \cup (IF date.k = "None" THEN {} ELSE {"Due Date"}) |->
                  CASE n = "Title" -> TitleRuns(W("Plan"))
                    [] n = "Status" -> status
                    [] OTHER -> date])
Edit(name, value) == [k |-> "edit", name |-> name, value |-> value]
Edits ==
    {Edit("Status", v) : v \in {NONE_OPTION, Str(W("To Do")), Str(W("Done"))}}
    \cup {Edit("Due Date", Str(d)) : d \in PlainDates}
    \cup {Edit("Title", Str(W("Plan B")))}
WriteFailures == {{}, {"Status"}, {"Due Date"}}

InitEditor ==
    /\ remote_schema = RepoSchema
    /\ schema_cache = Dict(RepoSchema)
    /\ \E status \in EditorStatuses, date \in EditorDates :
          remote_pages = [id \in {"p1"} |-> EditorPage(status, date)]
    /\ calls = <<>>
    /\ op = [name |-> "init", n |-> 0, edited |-> {}]
    /\ ret = NONE
    /\ NotesIdle
    /\ session_state = [values |-> <<>>, dirty |-> {}]
    /\ chat_pc = "off"
    /\ session_messages = <<>>
    /\ session_tasks = <<page_to_task(RepoSchema, remote_pages["p1"])>>
    /\ messages = <<>>
    /\ response = NONE
    /\ received = <<>>
    /\ dispatched = <<>>
    /\ assistant_message = NONE
    /\ log_buffer = <<>>

\* The user's edit before the rerun: the widget's value, and _mark_dirty.
Edited(state, edit) ==
    IF edit.k = "None" THEN state
    ELSE [values |-> DictSet(state.values, edit.name, edit.value),
          dirty |-> state.dirty \cup {edit.name}]
EditedSoFar(edit) == IF edit.k = "None" THEN op.edited ELSE op.edited \cup {edit.name}

RenderEnds(autosave, edit, pressed, state, run) ==
    /\ op' = [name |-> "render", n |-> op.n + 1, autosave |-> autosave, pressed |-> pressed,
              edited |-> EditedSoFar(edit), before |-> session_tasks[1], shown |-> state.values,
              writes |-> run.writes]
    /\ ret' = IF run.raised.k = "raise" THEN run.raised ELSE Return(run.returns)
    /\ session_tasks' = <<run.task>>
    /\ session_state' = [values |-> run.values, dirty |-> run.dirty]
    /\ remote_pages' = run.pages
    /\ schema_cache' = run.cache
    /\ calls' = run.calls
    /\ log_buffer' = run.log
    /\ UNCHANGED <<remote_schema, notes_vars, chat_pc, session_messages, messages, response,
                   received, dispatched, assistant_message>>
RenderWith(autosave, edit, pressed, fails, sink_ok, state) ==
    RenderEnds(autosave, edit, pressed, state,
               render_dynamic_editor(session_tasks[1], state, remote_pages, schema_cache,
                                     log_buffer, autosave, pressed, fails, sink_ok))
RenderEditor(autosave, edit, pressed, fails, sink_ok) ==
    /\ op.n < MaxRenders
    /\ edit.k # "None" => /\ edit.name \in DOMAIN session_state.values
                          /\ session_state.values[edit.name] # edit.value
    /\ pressed => (~autosave /\ op.name = "render" /\ ~op.autosave)
    /\ RenderWith(autosave, edit, pressed, fails, sink_ok, Edited(session_state, edit))

NextEditor ==
    \E autosave \in BOOLEAN, edit \in {NONE} \cup Edits, pressed \in BOOLEAN,
       fails \in WriteFailures, sink_ok \in BOOLEAN :
        RenderEditor(autosave, edit, pressed, fails, sink_ok)

SpecEditor == InitEditor /\ [][NextEditor]_vars

\* C28: with auto-save enabled, a run of the editor for a task none of whose
\* fields the user has edited calls update_property for no property, whatever
\* the task's values are.
C28_NoEditNoWrite ==
    (op.name = "render" /\ op.autosave /\ op.edited = {}) => op.writes = <<>>

\* The properties whose edited value differs from the value the task had when
\* the run began: the user has edited the widget, and what it holds is another
\* value than the task's.
EditedValue(name) == NewValue(SchemaGet(RepoSchema, name), op.shown[name])
Differing == {name \in op.edited : EditedValue(name) # current_value_of(op.before, name)}
WritesOf(name) == SelectSeq(op.writes, LAMBDA w : w.name = name)
WrittenOk == {op.writes[i].name : i \in {j \in 1..Len(op.writes) : op.writes[j].ok}}

\* C29: with auto-save disabled a run of the editor calls update_property only
\* when the save button is pressed; a pressed run that no write aborts calls it
\* exactly once, with the edited value, for each property whose edited value
\* differs from the task's value, and for no other property; the cached task
\* changes only in properties whose write succeeded; and the run reports a
\* change only when a property was written.
C29_SaveWritesTheEdits ==
    (op.name = "render" /\ ~op.autosave)
    => /\ ~op.pressed => op.writes = <<>>
       /\ (op.pressed /\ ret.k = "return")
          => \A name \in SchemaNames(RepoSchema) :
                WritesOf(name) = IF name \in Differing
                                 THEN <<[name |-> name, val |-> EditedValue(name), ok |-> TRUE]>>
                                 ELSE <<>>
       /\ \A name \in SchemaNames(RepoSchema) :
             current_value_of(session_tasks[1], name) # current_value_of(op.before, name)
             => name \in WrittenOk
       /\ ret = Return(Bool(TRUE)) => WrittenOk # {}

====
